---- MODULE Spec2Model ----
(***************************************************************************)
(* Model of the radiosim simulation engine (HARMONI-CAB/radiosim):         *)
(*   - TExpSimulator, the incremental exposure-time estimator              *)
(*     (radiosim/DetectorSimulator.py);                                    *)
(*   - the spectral sources (RadianceSpectrum, PowerSpectrum,              *)
(*     AttenuatedSpectrum) and the optical stages (StageResponse,          *)
(*     CompoundResponse).                                                  *)
(*                                                                         *)
(* Numbers are exact extended rationals <<n, d>>: d > 0 is the rational    *)
(* n/d in lowest terms, <<1,0>> / <<-1,0>> are +inf / -inf and <<0,0>> is  *)
(* NaN, as numpy's float64 arithmetic produces them.                       *)
(***************************************************************************)
EXTENDS Integers, Sequences, FiniteSets, TLC

VARIABLES
    \* ---- TExpSimulator (DetectorSimulator.py:44-117) ----
    N,            \* self.N: number of grid points
    Ie,           \* self.Ie: electron rate per pixel
    texp_approx,  \* self.texp_approx
    t_exp,        \* self.t_exp: the time grid
    p,            \* self.p: the accumulated, unnormalized density
    i,            \* self.i: progress index
    count_limit,  \* count_limit: self.ca / self.cb are derived from it
    pointDensity, \* value of the dot product of lines 100-102 at each point
    result,       \* what the last get_result() returned
    \* ---- sources and stages ----
    stage,        \* the leaf StageResponse objects, by identity
    filters,      \* AttenuatedSpectrum.filters._stages (CompoundResponse)
    source,       \* the inner RadianceSpectrum wrapped by the AttenuatedSpectrum
    wrapper,      \* the AttenuatedSpectrum itself
    lamp,         \* a PowerSpectrum source
    \* ---- DetectorSimulator and its CCDPixel (two instances, one configuration) ----
    det,          \* gain, readout noise, electron rates, bound spectrum, generators
    \* ---- SimUI, the host of the estimator ----
    ui,           \* run_texp_simulation calls in progress, flag, indicator, events
    \* ---- bookkeeping ----
    last          \* the last operation called and how it ended

texpVars == <<N, Ie, texp_approx, t_exp, p, i, count_limit, pointDensity, result>>
optVars  == <<stage, filters, source, wrapper, lamp, det, ui>>
vars     == <<N, Ie, texp_approx, t_exp, p, i, count_limit, pointDensity, result,
              stage, filters, source, wrapper, lamp, det, ui, last>>

(* Bounds of the model *)

MaxN       == 3   \* largest grid size N
MaxElapsed == 2   \* largest clock reading (ms) seen inside one work() call
MaxStages  == 2   \* longest filter chain

(* Extended rational arithmetic (float64 semantics without rounding) *)

Abs(x) == IF x < 0 THEN -x ELSE x

Sign(x) == IF x < 0 THEN -1 ELSE IF x > 0 THEN 1 ELSE 0

RECURSIVE GCD(_, _)
GCD(a, b) == IF b = 0 THEN a ELSE GCD(b, a % b)

\* n/d in lowest terms with a positive denominator; d = 0 gives inf or NaN
RNorm(n, d) ==
    IF d = 0 THEN <<Sign(n), 0>>
    ELSE LET s == IF d < 0 THEN -1 ELSE 1
             g == GCD(Abs(n), Abs(d))
         IN  <<(s * n) \div g, (s * d) \div g>>

R(n)     == <<n, 1>>
Zero     == <<0, 1>>
One      == <<1, 1>>
Half     == <<1, 2>>
NaN      == <<0, 0>>
Inf      == <<1, 0>>

IsNaN(a)    == a = NaN
IsFinite(a) == a[2] > 0

RMul(a, b) == RNorm(a[1] * b[1], a[2] * b[2])

RAdd(a, b) ==
    IF a[2] = 0 /\ b[2] = 0
    THEN (IF a = b THEN a ELSE NaN)
    ELSE RNorm(a[1] * b[2] + b[1] * a[2], a[2] * b[2])

RNeg(a) == <<-a[1], a[2]>>

RSub(a, b) == RAdd(a, RNeg(b))

\* numpy division: x/0 is +-inf, 0/0 is NaN
RDiv(a, b) == RNorm(a[1] * b[2], a[2] * b[1])

\* comparisons are false when NaN is involved
RLess(a, b) ==
    /\ ~IsNaN(a) /\ ~IsNaN(b)
    /\ IF a[2] = 0 /\ b[2] = 0 THEN a[1] < b[1]
       ELSE IF a[2] = 0 THEN a[1] < 0
       ELSE IF b[2] = 0 THEN b[1] > 0
       ELSE a[1] * b[2] < b[1] * a[2]

RLeq(a, b) == ~IsNaN(a) /\ ~IsNaN(b) /\ (a = b \/ RLess(a, b))

RMax(a, b) == IF RLess(a, b) THEN b ELSE a

RECURSIVE RSum(_)
RSum(s) == IF s = <<>> THEN Zero ELSE RAdd(Head(s), RSum(Tail(s)))

\* integer square root (floor)
RECURSIVE ISqrtFrom(_, _)
ISqrtFrom(n, k) == IF (k + 1) * (k + 1) > n THEN k ELSE ISqrtFrom(n, k + 1)

ISqrt(n) == ISqrtFrom(n, 0)

IsSquare(n) == n >= 0 /\ ISqrt(n) * ISqrt(n) = n

\* x ** .5 for a rational whose numerator and denominator are squares
RSqrt(a) == <<ISqrt(a[1]), ISqrt(a[2])>>

RECURSIVE RPowInt(_, _)
RPowInt(a, k) == IF k = 0 THEN One ELSE RMul(a, RPowInt(a, k - 1))


(***************************************************************************)
(* TExpSimulator: radiosim/DetectorSimulator.py:44-117                     *)
(***************************************************************************)

\* rate > 20 switches poissonDistribution to the Gaussian approximation
PoissonCutoff == 20

\* the rates, first estimates, thresholds and point densities tried
IeVals         == {R(1), R(100)}
TexpApproxVals == {R(1), R(4)}
CountLimitVals == {R(4)}
DensVals       == {NaN, Zero, One, R(2)}
Timeouts       == {0, 1, MaxElapsed + 1}

\* self.texp_min, self.texp_max (lines 52-53)
texp_min == RMax(Zero, RSub(texp_approx, RSqrt(texp_approx)))

texp_max == RAdd(texp_approx, RSqrt(texp_approx))

\* np.linspace(a, b, n)
Linspace(a, b, n) ==
    [k \in 1..n |->
        IF n = 1 THEN a
        ELSE RAdd(a, RMul(R(k - 1), RDiv(RSub(b, a), R(n - 1))))]

\* self.dt (line 60): float64 division, so N = 1 gives inf or NaN
dt == RDiv(RSub(texp_max, texp_min), R(N - 1))

\* self.ca, self.cb (lines 58-59)
ca == RSub(count_limit, Half)

cb == RAdd(count_limit, Half)

progress == RDiv(R(i), R(N))

done == i = N

\* rate = self.Ie * t at the grid point of (0-based) index j (line 95)
Rate(j) == RMul(Ie, t_exp[j + 1])

\* poissonDistribution (lines 62-71): for 0 < rate <= 20 the support nes has
\* more than one element and np.math.gamma(x + 1) raises TypeError on it
PoissonRaises(j) == RLess(Zero, Rate(j)) /\ RLeq(Rate(j), R(PoissonCutoff))

\* nondecreasing perf_counter readings (elapsed ms) of one work() call
IsClock(c) == \A k \in 1..(Len(c) - 1) : c[k] <= c[k + 1]

\* the clocks of n readings, none of them below lo
RECURSIVE ClocksFrom(_, _)
ClocksFrom(n, lo) ==
    IF n = 0 THEN {<<>>}
    ELSE UNION {{<<v>> \o c : c \in ClocksFrom(n - 1, v)} : v \in lo..MaxElapsed}

Clocks == {c \in ClocksFrom(MaxN + 2, 0) : IsClock(c)}

\* the loop of work() without its test for the end of the grid
RECURSIVE WorkLoop_unguarded(_, _, _, _, _)
WorkLoop_unguarded(j, q, r, clock, timeout_ms) ==
    IF r <= MaxN /\ clock[r + 1] < timeout_ms
    THEN WorkLoop_unguarded(j + 1,
                            IF j < N
                            THEN [q EXCEPT ![j + 1] = pointDensity[j + 1]]
                            ELSE q,
                            r + 1, clock, timeout_ms)
    ELSE [i |-> j, p |-> q, raised |-> FALSE]

\* the loop of work() (lines 91-103): j is the local index, q the density
\* array, r the number of clock readings taken so far
RECURSIVE WorkLoop(_, _, _, _, _)
WorkLoop(j, q, r, clock, timeout_ms) ==
    IF j < N /\ clock[r + 1] < timeout_ms
    THEN IF PoissonRaises(j)
         THEN [i |-> i, p |-> q, raised |-> TRUE]
         ELSE WorkLoop(j + 1, [q EXCEPT ![j + 1] = pointDensity[j + 1]],
                       r + 1, clock, timeout_ms)
    ELSE [i |-> j, p |-> q, raised |-> FALSE]

\* work() that starts over from the first grid point on every call
work_restart(timeout_ms, clock) ==
    LET r == WorkLoop(0, p, 0, clock, timeout_ms)
    IN  /\ i' = r.i
        /\ p' = r.p
        /\ last' = [op |-> "work", arg |-> timeout_ms, i0 |-> i,
                    err |-> IF r.raised THEN "TypeError" ELSE "none"]
        /\ UNCHANGED <<N, Ie, texp_approx, t_exp, count_limit, pointDensity,
                       result>>
        /\ UNCHANGED optVars

work(timeout_ms, clock) ==
    LET r == WorkLoop(i, p, 0, clock, timeout_ms)
    IN  /\ i' = r.i
        /\ p' = r.p
        /\ last' = [op |-> "work", arg |-> timeout_ms, i0 |-> i,
                    err |-> IF r.raised THEN "TypeError" ELSE "none"]
        /\ UNCHANGED <<N, Ie, texp_approx, t_exp, count_limit, pointDensity,
                       result>>
        /\ UNCHANGED optVars

\* get_result (lines 107-117)
NoResult == [t |-> <<>>, d |-> <<>>]

NansZeroed(q) == [k \in 1..Len(q) |-> IF IsNaN(q[k]) THEN Zero ELSE q[k]]

\* normalization that forgets the grid spacing
NormK_no_dt(q) ==
    LET k == RSum(q)
    IN  IF k = Zero THEN One ELSE k

NormK(q) ==
    LET k == RSum([j \in 1..Len(q) |-> RMul(q[j], dt)])
    IN  IF k = Zero THEN One ELSE k

get_result ==
    LET q == NansZeroed(p)
    IN  /\ p' = q
        /\ result' = [t |-> t_exp,
                      d |-> [j \in 1..N |-> RDiv(q[j], NormK(q))]]
        /\ last' = [op |-> "get_result", arg |-> 0, i0 |-> i, err |-> "none"]
        /\ UNCHANGED <<N, Ie, texp_approx, t_exp, i, count_limit, pointDensity>>
        /\ UNCHANGED optVars

(***************************************************************************)
(* Optical stages: radiosim/StageResponse.py, radiosim/CompoundResponse.py *)
(***************************************************************************)

\* self._T of a new stage (StageResponse.py:48)
DefaultT == 273

\* the stage objects, the axis samples, and the values tried
StageIds    == {1, 2}
Wavelengths == {1, 2}
Temps       == {0, DefaultT, 300}
FNums       == {R(2)}
MultVals    == {Half, One, <<3, 2>>, R(2)}
XVals       == {Zero, R(4)}

\* Python's None, for an optional number
None == <<0, -1>>

\* np.pi, as a rational
Pi == <<22, 7>>

\* get_t of a leaf stage (InterpolatedResponse.get_t): the tabulated
\* transmittance curve number c at the axis sample wl
TCurve(c, wl) ==
    IF c = 1 THEN (IF wl = 1 THEN <<1, 4>> ELSE One)
    ELSE (IF wl = 1 THEN Zero ELSE <<1, 4>>)

\* RadianceSpectrum.planck(wl, T = T): a stand-in table for Planck's law,
\* positive and increasing with T for T > 0
Planck(wl, T) == R(T * wl)

\* x ** e for an exponent e >= 0 that is a multiple of 1/2
RPow(x, e) ==
    IF e[2] = 1 THEN RPowInt(x, e[1]) ELSE RPowInt(RSqrt(x), e[1])

\* int(np.round(m)) for m >= 0: nearest integer, halves to the even one
Round(m) ==
    LET fl == m[1] \div m[2]
        r2 == 2 * (m[1] - fl * m[2])
    IN  IF r2 < m[2] THEN fl
        ELSE IF r2 > m[2] THEN fl + 1
        ELSE IF fl % 2 = 0 THEN fl ELSE fl + 1

\* StageResponse.__init__ for a leaf stage with transmittance curve c
NewStage(c) ==
    [curve |-> c, _label |-> "NO LABEL", _exp |-> One, _T |-> DefaultT,
     bbT |-> DefaultT, _background |-> TRUE, to_irradiance |-> R(-1)]

\* RadianceSpectrum.set_fnum: to_irradiance = np.pi / (4 * fnum ** 2)
ToIrradiance(fnum) == RDiv(Pi, RMul(R(4), RMul(fnum, fnum)))

\* t() that rounds the multiplicity before it is applied
StageT_rounded(st, wl) == RPowInt(TCurve(st.curve, wl), Round(st._exp))

\* StageResponse.t
StageT(st, wl) ==
    IF st._exp = One THEN TCurve(st.curve, wl)
    ELSE RPow(TCurve(st.curve, wl), st._exp)

\* the value or the exception of an evaluation
Ok(v)    == [err |-> "none", v |-> v]
Fail(e)  == [err |-> e, v |-> NaN]

\* self._black_body.E(wl = wl): RadianceSpectrum.E on the stage's black body
BlackBodyE(st, wl) ==
    IF RLess(st.to_irradiance, Zero) THEN Fail("FnumNotSet")
    ELSE Ok(RMul(st.to_irradiance, Planck(wl, st.bbT)))

\* apply_scalar that adds no background
apply_scalar_no_background(st, wl, spectrum, thermal) ==
    Ok(RMul(StageT(st, wl), spectrum))

\* StageResponse.apply_scalar / apply_array (element by element)
apply_scalar(st, wl, spectrum, thermal) ==
    LET t  == StageT(st, wl)
        tx == RMul(t, spectrum)
    IN  IF st._T > 0 /\ st._background /\ thermal
        THEN LET e == BlackBodyE(st, wl)
             IN  IF e.err # "none" THEN e
                 ELSE Ok(RAdd(tx, RMul(RSub(One, t), e.v)))
        ELSE Ok(tx)

\* CompoundResponse.__init__
NewCompound == [_stages |-> <<>>, _exp |-> One, _repeat_train |-> FALSE]

\* CompoundResponse(repeat_train = True)
NewRepeatTrain == [NewCompound EXCEPT !._repeat_train = TRUE]

\* get_t that keeps only the last stage's response
compound_get_t_last_only(stg, ss, wl) ==
    IF ss = <<>> THEN One ELSE StageT(stg[ss[Len(ss)]], wl)

\* CompoundResponse.get_t over the stage list ss
RECURSIVE compound_get_t(_, _, _)
compound_get_t(stg, ss, wl) ==
    IF ss = <<>> THEN One
    ELSE RMul(StageT(stg[Head(ss)], wl), compound_get_t(stg, Tail(ss), wl))

\* a pass that takes the stages from the last to the first
RECURSIVE ApplyPass_reversed(_, _, _, _, _)
ApplyPass_reversed(stg, ss, wl, res, thermal) ==
    IF ss = <<>> \/ res.err # "none" THEN res
    ELSE ApplyPass_reversed(stg, SubSeq(ss, 1, Len(ss) - 1), wl,
                            apply_scalar(stg[ss[Len(ss)]], wl, res.v, thermal),
                            thermal)

\* one pass of the inner for loop of CompoundResponse.apply_scalar
RECURSIVE ApplyPass(_, _, _, _, _)
ApplyPass(stg, ss, wl, res, thermal) ==
    IF ss = <<>> \/ res.err # "none" THEN res
    ELSE ApplyPass(stg, Tail(ss), wl,
                   apply_scalar(stg[Head(ss)], wl, res.v, thermal), thermal)

\* the while loop of CompoundResponse.apply_scalar
RECURSIVE ApplyTrain(_, _, _, _, _, _)
ApplyTrain(stg, ss, wl, res, thermal, n) ==
    IF n > 0 /\ res.err = "none"
    THEN ApplyTrain(stg, ss, wl, ApplyPass(stg, ss, wl, res, thermal),
                    thermal, n - 1)
    ELSE res

\* CompoundResponse.apply_scalar / apply_array (element by element)
compound_apply(stg, f, wl, spectrum, thermal) ==
    ApplyTrain(stg, f._stages, wl, Ok(spectrum), thermal, Round(f._exp))

(***************************************************************************)
(* Sources: radiosim/RadianceSpectrum.py, PowerSpectrum.py,                *)
(* AttenuatedSpectrum.py                                                   *)
(***************************************************************************)

AttVals == {<<-1, 2>>, Zero, Half, One, <<3, 2>>}
Ratings == {R(2)}
Powers  == {R(1), R(2)}

\* get_I of the inner radiance source: its tabulated density
SourceGetI(wl) == IF wl = 1 THEN R(4) ELSE R(8)

\* get_PSD of the power source: its tabulated density
LampGetPSD(wl) == IF wl = 1 THEN R(6) ELSE R(2)

\* RadianceSpectrum.__init__
NewRadiance == [power |-> None, power_factor |-> One]

\* AttenuatedSpectrum.__init__ (the fields of RadianceSpectrum and its own)
NewAttenuated ==
    [power |-> None, power_factor |-> One, attenuation |-> Zero,
     max_wl |-> R(-1)]

\* PowerSpectrum.__init__
NewPower == [power |-> None, power_factor |-> One, attenuation |-> Zero]

\* RadianceSpectrum.set_nominal_power_rating / PowerSpectrum.set_nominal_power_rating
set_nominal_power_rating(o, power) ==
    [o EXCEPT !.power = power, !.power_factor = One]

\* adjust_power that takes a missing rating for 1
adjust_power_unchecked(o, power) ==
    [o   |-> [o EXCEPT !.power_factor =
                IF o.power = None THEN power ELSE RDiv(power, o.power)],
     err |-> "none"]

\* RadianceSpectrum.adjust_power / PowerSpectrum.adjust_power
adjust_power(o, power) ==
    IF o.power = None
    THEN [o |-> o, err |-> "PowerNotAdjustable"]
    ELSE [o |-> [o EXCEPT !.power_factor = RDiv(power, o.power)],
          err |-> "none"]

\* RadianceSpectrum.I (scalar wavelength) of the inner source
RadianceI(src, wl) == RMul(src.power_factor, SourceGetI(wl))

\* get_I that scales by the attenuation instead of by what is left of it
AttenuatedGetI_wrong_factor(w, src, stg, f, wl) ==
    LET alpha == RMul(w.attenuation, src.power_factor)
    IN  compound_apply(stg, f, wl, RMul(alpha, SourceGetI(wl)), TRUE)

\* AttenuatedSpectrum.get_I
AttenuatedGetI(w, src, stg, f, wl) ==
    LET alpha == RMul(RSub(One, w.attenuation), src.power_factor)
    IN  compound_apply(stg, f, wl, RMul(alpha, SourceGetI(wl)), TRUE)

\* RadianceSpectrum.I on the AttenuatedSpectrum
AttenuatedI(w, src, stg, f, wl) ==
    LET g == AttenuatedGetI(w, src, stg, f, wl)
    IN  IF g.err # "none" THEN g ELSE Ok(RMul(w.power_factor, g.v))

\* PSD that scales by the attenuation instead of by what is left of it
PSD_wrong_factor(l, wl) ==
    RMul(RMul(l.power_factor, l.attenuation), LampGetPSD(wl))

\* PowerSpectrum.PSD (scalar wavelength)
PSD(l, wl) ==
    RMul(RMul(l.power_factor, RSub(One, l.attenuation)), LampGetPSD(wl))

(***************************************************************************)
(* Operations on the stages and the filter chain                           *)
(***************************************************************************)

Did(op, tgt, arg, err) == [op |-> op, tgt |-> tgt, arg |-> arg, err |-> err]

\* neither the estimator nor the detector is touched
UnchangedTExp ==
    UNCHANGED <<N, Ie, texp_approx, t_exp, p, i, count_limit, pointDensity,
                result, det, ui>>

\* StageResponse.set_multiplicity
set_multiplicity(s, exp) ==
    /\ stage' = [stage EXCEPT ![s]._exp = exp]
    /\ last' = Did("set_multiplicity", s, exp, "none")
    /\ UNCHANGED <<filters, source, wrapper, lamp>>
    /\ UnchangedTExp

\* set_temperature that forgets the stage's black body
set_temperature_stale(s, T) ==
    /\ stage' = [stage EXCEPT ![s]._T = T]
    /\ last' = Did("set_temperature", s, R(T), "none")
    /\ UNCHANGED <<filters, source, wrapper, lamp>>
    /\ UnchangedTExp

\* StageResponse.set_temperature
set_temperature(s, T) ==
    /\ stage' = [stage EXCEPT ![s]._T = T, ![s].bbT = T]
    /\ last' = Did("set_temperature", s, R(T), "none")
    /\ UNCHANGED <<filters, source, wrapper, lamp>>
    /\ UnchangedTExp

\* StageResponse.set_background
set_background(s, enabled) ==
    /\ stage' = [stage EXCEPT ![s]._background = enabled]
    /\ last' = Did("set_background", s, IF enabled THEN One ELSE Zero, "none")
    /\ UNCHANGED <<filters, source, wrapper, lamp>>
    /\ UnchangedTExp

\* StageResponse.set_fnum (the colour it recomputes is not modelled)
set_fnum(s, fnum) ==
    /\ stage' = [stage EXCEPT ![s].to_irradiance = ToIrradiance(fnum)]
    /\ last' = Did("set_fnum", s, fnum, "none")
    /\ UNCHANGED <<filters, source, wrapper, lamp>>
    /\ UnchangedTExp

\* CompoundResponse.push_front
push_front(s, fnum) ==
    /\ Len(filters._stages) < MaxStages
    /\ stage' = IF fnum # None
                THEN [stage EXCEPT ![s].to_irradiance = ToIrradiance(fnum)]
                ELSE stage
    /\ filters' = [filters EXCEPT !._stages = <<s>> \o @]
    /\ last' = Did("push_front", s, fnum, "none")
    /\ UNCHANGED <<source, wrapper, lamp>>
    /\ UnchangedTExp

\* CompoundResponse.push_back
push_back(s, fnum) ==
    /\ Len(filters._stages) < MaxStages
    /\ stage' = IF fnum # None
                THEN [stage EXCEPT ![s].to_irradiance = ToIrradiance(fnum)]
                ELSE stage
    /\ filters' = [filters EXCEPT !._stages = Append(@, s)]
    /\ last' = Did("push_back", s, fnum, "none")
    /\ UNCHANGED <<source, wrapper, lamp>>
    /\ UnchangedTExp

\* CompoundResponse.set_multiplicity: without repeat_train the multiplicity
\* goes to every member; with it the call fails: StageResponse names the
\* module imported on line 31, which has no set_multiplicity, and the call
\* passes no instance either
compound_set_multiplicity(mult) ==
    /\ IF filters._repeat_train
       THEN /\ stage' = stage
            /\ last' = Did("compound_set_multiplicity", 0, mult, "AttributeError")
       ELSE /\ stage' = [s \in StageIds |->
                           IF \E k \in 1..Len(filters._stages) :
                                  filters._stages[k] = s
                           THEN [stage[s] EXCEPT !._exp = mult]
                           ELSE stage[s]]
            /\ last' = Did("compound_set_multiplicity", 0, mult, "none")
    /\ UNCHANGED <<filters, source, wrapper, lamp>>
    /\ UnchangedTExp

\* StageResponse.set_label (the node name and the colour it recomputes are
\* not modelled)
set_label(s, label) ==
    /\ stage' = [stage EXCEPT ![s]._label = label]
    /\ last' = Did("set_label", s, Zero, "none")
    /\ UNCHANGED <<filters, source, wrapper, lamp>>
    /\ UnchangedTExp

\* a prune that stops at the first stage it removes, as prune_forward does
RECURSIVE PruneLoop_truncating(_, _, _, _)
PruneLoop_truncating(stg, ss, what, actual_stages) ==
    IF ss = <<>> THEN actual_stages
    ELSE IF stg[Head(ss)]._label \notin what
         THEN PruneLoop_truncating(stg, Tail(ss), what,
                                   Append(actual_stages, Head(ss)))
         ELSE actual_stages

\* the for loop of CompoundResponse.prune, over what is left of the list
RECURSIVE PruneLoop(_, _, _, _)
PruneLoop(stg, ss, what, actual_stages) ==
    IF ss = <<>> THEN actual_stages
    ELSE PruneLoop(stg, Tail(ss), what,
                   IF stg[Head(ss)]._label \notin what
                   THEN Append(actual_stages, Head(ss))
                   ELSE actual_stages)

\* what a prune(what) call leaves behind for the next one to look at
Pruned(what, before, stage0) ==
    [op |-> "prune", tgt |-> 0, arg |-> Zero, err |-> "none",
     what |-> what, before |-> before, stage0 |-> stage0]

\* CompoundResponse.prune
prune(what) ==
    /\ filters' = [filters EXCEPT
                      !._stages = PruneLoop(stage, filters._stages, what, <<>>)]
    /\ last' = Pruned(what, filters._stages, stage)
    /\ UNCHANGED <<stage, source, wrapper, lamp>>
    /\ UnchangedTExp

(***************************************************************************)
(* Operations on the sources                                               *)
(***************************************************************************)

\* AttenuatedSpectrum.push_filter
push_filter(s) ==
    /\ Len(filters._stages) < MaxStages
    /\ wrapper' = [wrapper EXCEPT !.max_wl = R(-1)]
    /\ filters' = [filters EXCEPT !._stages = Append(@, s)]
    /\ last' = Did("push_filter", s, Zero, "none")
    /\ UNCHANGED <<stage, source, lamp>>
    /\ UnchangedTExp

\* set_attenuation without the range check
AttenuatedSpectrum_set_attenuation_unchecked(attenuation) ==
    /\ wrapper' = [wrapper EXCEPT !.attenuation = attenuation]
    /\ last' = Did("AttenuatedSpectrum.set_attenuation", 0, attenuation, "none")
    /\ UNCHANGED <<stage, filters, source, lamp>>
    /\ UnchangedTExp

\* AttenuatedSpectrum.set_attenuation
AttenuatedSpectrum_set_attenuation(attenuation) ==
    /\ IF RLess(attenuation, Zero) \/ RLess(One, attenuation)
       THEN /\ wrapper' = wrapper
            /\ last' = Did("AttenuatedSpectrum.set_attenuation", 0,
                           attenuation, "InvalidAttenuation")
       ELSE /\ wrapper' = [wrapper EXCEPT !.attenuation = attenuation]
            /\ last' = Did("AttenuatedSpectrum.set_attenuation", 0,
                           attenuation, "none")
    /\ UNCHANGED <<stage, filters, source, lamp>>
    /\ UnchangedTExp

\* PowerSpectrum.set_attenuation
PowerSpectrum_set_attenuation(factor) ==
    /\ lamp' = [lamp EXCEPT !.attenuation = factor]
    /\ last' = Did("PowerSpectrum.set_attenuation", 0, factor, "none")
    /\ UNCHANGED <<stage, filters, source, wrapper>>
    /\ UnchangedTExp

\* set_nominal_power_rating on the inner source
source_set_nominal_power_rating(power) ==
    /\ source' = set_nominal_power_rating(source, power)
    /\ last' = Did("source.set_nominal_power_rating", 0, power, "none")
    /\ UNCHANGED <<stage, filters, wrapper, lamp>>
    /\ UnchangedTExp

\* set_nominal_power_rating on the power source
lamp_set_nominal_power_rating(power) ==
    /\ lamp' = set_nominal_power_rating(lamp, power)
    /\ last' = Did("lamp.set_nominal_power_rating", 0, power, "none")
    /\ UNCHANGED <<stage, filters, source, wrapper>>
    /\ UnchangedTExp

\* adjust_power on the inner source
source_adjust_power(power) ==
    /\ source' = adjust_power(source, power).o
    /\ last' = Did("source.adjust_power", 0, power, adjust_power(source, power).err)
    /\ UNCHANGED <<stage, filters, wrapper, lamp>>
    /\ UnchangedTExp

\* adjust_power on the power source
lamp_adjust_power(power) ==
    /\ lamp' = adjust_power(lamp, power).o
    /\ last' = Did("lamp.adjust_power", 0, power, adjust_power(lamp, power).err)
    /\ UNCHANGED <<stage, filters, source, wrapper>>
    /\ UnchangedTExp

\* adjust_power on the AttenuatedSpectrum (runmodel.py:339): the method it
\* inherits looks at the wrapper's own rating, not at the inner source's
wrapper_adjust_power(power) ==
    /\ wrapper' = adjust_power(wrapper, power).o
    /\ last' = Did("wrapper.adjust_power", 0, power, adjust_power(wrapper, power).err)
    /\ UNCHANGED <<stage, filters, source, lamp>>
    /\ UnchangedTExp

\* TExpSimulator.__init__ (lines 45-60)
TExpInit ==
    /\ N \in 1..MaxN
    /\ Ie \in IeVals
    /\ texp_approx \in TexpApproxVals
    /\ count_limit \in CountLimitVals
    /\ t_exp = Linspace(texp_min, texp_max, N)
    /\ p = [k \in 1..N |-> Zero]
    /\ i = 0
    /\ pointDensity \in [1..N -> DensVals]
    /\ result = NoResult

\* the optical objects are not used by the estimator runs
OptIdle ==
    /\ stage = <<>>
    /\ filters = <<>>
    /\ source = <<>>
    /\ wrapper = <<>>
    /\ lamp = <<>>
    /\ det = <<>>
    /\ ui = <<>>

Init ==
    /\ TExpInit
    /\ OptIdle
    /\ last = [op |-> "init", arg |-> 0, i0 |-> 0, err |-> "none"]

\* a call of work() tests the clock at most N - i times; the entries of clock
\* after the one that follows the last test repeat it
Work ==
    \E timeout_ms \in Timeouts :
        \E clock \in {c \in Clocks :
                        \A k \in 1..(MaxN + 1) :
                            k > N - i => c[k + 1] = c[k]} :
            work(timeout_ms, clock)

GetResult == get_result

Next == Work \/ GetResult

Spec == Init /\ [][Next]_vars

\* the estimator is not used by the runs on stages and sources
TExpIdle ==
    /\ N = 1
    /\ Ie = Zero
    /\ texp_approx = Zero
    /\ count_limit = Zero
    /\ t_exp = <<Zero>>
    /\ p = <<Zero>>
    /\ i = 0
    /\ pointDensity = <<Zero>>
    /\ result = NoResult

\* stages as constructed, and an empty filter chain
InitStage ==
    /\ TExpIdle
    /\ stage = [s \in StageIds |-> NewStage(s)]
    /\ filters = NewCompound
    /\ source = NewRadiance
    /\ wrapper = NewAttenuated
    /\ lamp = NewPower
    /\ det = <<>>
    /\ ui = <<>>
    /\ last = Did("init", 0, Zero, "none")

StageSetMultiplicity == \E s \in StageIds, m \in MultVals : set_multiplicity(s, m)

StageSetTemperature == \E s \in StageIds, T \in Temps : set_temperature(s, T)

StageSetBackground == \E s \in StageIds, b \in BOOLEAN : set_background(s, b)

StageSetFnum == \E s \in StageIds, f \in FNums : set_fnum(s, f)

PushFront == \E s \in StageIds, f \in FNums \cup {None} : push_front(s, f)

PushBack == \E s \in StageIds, f \in FNums \cup {None} : push_back(s, f)

CompoundSetMultiplicity == \E m \in MultVals : compound_set_multiplicity(m)

NextStage ==
    \/ StageSetMultiplicity
    \/ StageSetTemperature
    \/ StageSetBackground
    \/ StageSetFnum
    \/ PushFront
    \/ PushBack
    \/ CompoundSetMultiplicity

SpecStage == InitStage /\ [][NextStage]_vars

\* stages as constructed, and an empty filter chain of either kind
InitTrain ==
    /\ TExpIdle
    /\ stage = [s \in StageIds |-> NewStage(s)]
    /\ filters \in {NewCompound, NewRepeatTrain}
    /\ source = NewRadiance
    /\ wrapper = NewAttenuated
    /\ lamp = NewPower
    /\ det = <<>>
    /\ ui = <<>>
    /\ last = Did("init", 0, Zero, "none")

\* building a pipeline and setting its multiplicity, with the stages'
\* temperatures changing underneath
NextTrain ==
    \/ StageSetMultiplicity
    \/ StageSetTemperature
    \/ PushFront
    \/ PushBack
    \/ CompoundSetMultiplicity

SpecTrain == InitTrain /\ [][NextTrain]_vars

\* the labels stages are given, and the labels asked to be pruned
Labels     == {"NO LABEL", "M1", "M2"}
PruneLists == SUBSET {"NO LABEL", "M1", "M2", "M3"}

StageSetLabel == \E s \in StageIds, label \in Labels : set_label(s, label)

Prune == \E what \in PruneLists : prune(what)

\* labelling stages, building a pipeline and pruning it
NextPrune ==
    \/ StageSetLabel
    \/ StageSetTemperature
    \/ PushFront
    \/ PushBack
    \/ Prune

SpecPrune == InitStage /\ [][NextPrune]_vars

\* the configurations a stage handed to push_filter may be in
StagePresets(c) ==
    { NewStage(c),
      [NewStage(c) EXCEPT !.to_irradiance = ToIrradiance(R(2))],
      [NewStage(c) EXCEPT !._background = FALSE],
      [NewStage(c) EXCEPT !._T = 0, !.bbT = 0] }

InitSource ==
    /\ TExpIdle
    /\ stage \in [StageIds -> UNION {StagePresets(c) : c \in StageIds}]
    /\ \A s \in StageIds : stage[s].curve = s
    /\ filters = NewCompound
    /\ source = NewRadiance
    /\ wrapper = NewAttenuated
    /\ lamp = NewPower
    /\ det = <<>>
    /\ ui = <<>>
    /\ last = Did("init", 0, Zero, "none")

PushFilter == \E s \in StageIds : push_filter(s)

AttenuatedSetAttenuation ==
    \E a \in AttVals : AttenuatedSpectrum_set_attenuation(a)

PowerSetAttenuation == \E a \in AttVals : PowerSpectrum_set_attenuation(a)

SourceSetRating == \E r \in Ratings : source_set_nominal_power_rating(r)

LampSetRating == \E r \in Ratings : lamp_set_nominal_power_rating(r)

SourceAdjustPower == \E pw \in Powers : source_adjust_power(pw)

LampAdjustPower == \E pw \in Powers : lamp_adjust_power(pw)

WrapperAdjustPower == \E pw \in Powers : wrapper_adjust_power(pw)

NextSource ==
    \/ PushFilter
    \/ AttenuatedSetAttenuation
    \/ PowerSetAttenuation
    \/ SourceSetRating
    \/ LampSetRating
    \/ SourceAdjustPower
    \/ LampAdjustPower
    \/ WrapperAdjustPower

SpecSource == InitSource /\ [][NextSource]_vars

(***************************************************************************)
(* Detector: radiosim/DetectorSimulator.py, radiosim/CCDPixel.py, and the  *)
(* axis arguments of the sources                                           *)
(***************************************************************************)

MaxDraws == 1   \* most noisy calls made on one detector instance

\* SPEED_OF_LIGHT in units of 1e8 m/s and PLANCK_CONSTANT in units of
\* 1e-34 J s, both rounded
SPEED_OF_LIGHT  == R(3)
PLANCK_CONSTANT == <<33, 5>>

\* the two detector instances built from one configuration; they differ
\* in their generators only, so calls that draw nothing go to the first
Instances == {1, 2}

Drawing(disable_noise) == IF disable_noise THEN {1} ELSE Instances

\* the axis handed to the detector: three samples, as wavelengths and as
\* the frequencies of the same samples
WlAxis  == <<R(5), R(6), R(10)>>
AxisLen == Len(WlAxis)
NuAxis  == [k \in 1..AxisLen |-> RDiv(SPEED_OF_LIGHT, WlAxis[k])]

\* the values tried
\* electron rates of the bound source over the axis samples: no signal,
\* nothing above zero, and the largest rate at each index, once tied
RateTables == { <<Zero, Zero, Zero>>, <<R(-1), Zero, R(-1)>>,
                <<R(3), R(2), Zero>>, <<Zero, R(3), R(2)>>,
                <<R(-1), R(2), R(3)>>, <<R(2), R(3), R(3)>> }
GainVals   == {One, R(2)}
TVals      == {Zero, One, R(120)}
LimitVals  == {R(6)}
RngSeeds   == {0, 1}
ScalarWl   == {One, R(2)}
ScalarNu   == {RDiv(SPEED_OF_LIGHT, w) : w \in ScalarWl}

IsNone(a) == a = None

\* the outcome of a detector call: the exception or the value, and the
\* generator after it
Out(err, v, rng) == [err |-> err, v |-> v, rng |-> rng]

\* default_rng() (CCDPixel.py:68): a generator seeded from the system's
\* entropy; n counts the draws made from it
NewRng(seed) == [seed |-> seed, n |-> 0]

\* the j-th variate of the next draw of a generator
Bit(rng, j) == (rng.seed + rng.n + j) % 2

Advance(rng) == [rng EXCEPT !.n = @ + 1]

Floor(a) == a[1] \div a[2]

\* self.rng.poisson(lam = e): a count near each mean, 0 for a mean of 0
poisson(rng, lam) ==
    [j \in 1..Len(lam) |->
        IF lam[j] = Zero THEN Zero ELSE R(Floor(lam[j]) + Bit(rng, j))]

\* self.rng.normal(loc = e, scale = ron): each mean moved by one deviation
normal(rng, loc, scale) ==
    [j \in 1..Len(loc) |->
        RAdd(loc[j], RMul(scale, R(2 * Bit(rng, j) - 1)))]

\* CCDPixel.ron
ron(d, t) == IF RLess(t, R(120)) THEN d.ron_le ELSE d.ron_he

\* DetectorSimulator.electronRatePerPixel without assert_spectrum
electronRatePerPixel_unasserted(d, k, wl, nu) ==
    IF IsNone(wl) /\ IsNone(nu) THEN Fail("AttributeError")
    ELSE IF ~IsNone(wl) /\ ~IsNone(nu) THEN Fail("AxisAmbiguous")
    ELSE Ok(d.erate)

\* DetectorSimulator.electronRatePerPixel: assert_spectrum first; Dh then
\* reads the axis (None has no shape), the spectrum's I refuses two axes or
\* none, and the rate of the bound source over the axis samples comes out
electronRatePerPixel(d, k, wl, nu) ==
    IF ~d.spectrum THEN Fail("NoSpectrum")
    ELSE IF IsNone(wl) /\ IsNone(nu) THEN Fail("AttributeError")
    ELSE IF ~IsNone(wl) /\ ~IsNone(nu) THEN Fail("AxisAmbiguous")
    ELSE Ok(d.erate)

\* CCDPixel.electronsPerPixel that keeps negative products
pixel_electronsPerPixel_unclipped(d, rng, e_rate, t, noisy) ==
    LET e == [j \in 1..Len(e_rate) |-> RMul(e_rate[j], t)]
    IN  IF noisy
        THEN Out("none", normal(Advance(rng), poisson(rng, e), ron(d, t)),
                 Advance(Advance(rng)))
        ELSE Out("none", e, rng)

\* CCDPixel.electronsPerPixel
pixel_electronsPerPixel(d, rng, e_rate, t, noisy) ==
    LET e0 == [j \in 1..Len(e_rate) |-> RMul(e_rate[j], t)]
        e  == [j \in 1..Len(e0) |-> IF RLess(e0[j], Zero) THEN Zero ELSE e0[j]]
    IN  IF noisy
        THEN Out("none", normal(Advance(rng), poisson(rng, e), ron(d, t)),
                 Advance(Advance(rng)))
        ELSE Out("none", e, rng)

\* DetectorSimulator.electronsPerPixel
electronsPerPixel(d, k, wl, nu, t, disable_noise) ==
    LET rate == electronRatePerPixel(d, k, wl, nu)
    IN  IF rate.err # "none" THEN Out(rate.err, NaN, d.rng[k])
        ELSE pixel_electronsPerPixel(d, d.rng[k], rate.v, t, ~disable_noise)

\* countsPerPixel that rounds to whole counts
pixel_countsPerPixel_rounded(d, electrons) ==
    [j \in 1..Len(electrons) |-> R(Round(RDiv(electrons[j], d.G)))]

\* CCDPixel.countsPerPixel
pixel_countsPerPixel(d, electrons) ==
    [j \in 1..Len(electrons) |-> RDiv(electrons[j], d.G)]

\* DetectorSimulator.countsPerPixel
countsPerPixel(d, k, wl, nu, t, disable_noise) ==
    LET electrons == electronsPerPixel(d, k, wl, nu, t, disable_noise)
    IN  IF electrons.err # "none" THEN electrons
        ELSE Out("none", pixel_countsPerPixel(d, electrons.v), electrons.rng)

\* np.argmax: the first index of the largest entry
ArgMax(a) ==
    CHOOSE m \in 1..Len(a) :
        /\ \A j \in 1..Len(a) : RLeq(a[j], a[m])
        /\ \A j \in 1..(m - 1) : a[j] # a[m]

\* the axis entry taken at the count value instead of at its index
AxisAtMax_by_count(axis, counts) ==
    LET c == Floor(counts[ArgMax(counts)])
    IN  axis[(c % Len(axis)) + 1]

\* wl[max_ndx] / nu[max_ndx] (DetectorSimulator.py:303-310)
AxisAtMax(axis, counts) == axis[ArgMax(counts)]

\* getMaxTexp without the test for a source that gives no counts
getMaxTexp_unchecked(d, k, wl, nu, limit) ==
    LET counts == countsPerPixel(d, k, wl, nu, One, TRUE)
    IN  IF counts.err # "none" THEN Fail(counts.err)
        ELSE LET max_count  == counts.v[ArgMax(counts.v)]
                 max_lambda == IF ~IsNone(wl) THEN AxisAtMax(wl, counts.v)
                               ELSE RDiv(SPEED_OF_LIGHT, AxisAtMax(nu, counts.v))
                 max_nu     == IF ~IsNone(wl)
                               THEN RDiv(SPEED_OF_LIGHT, max_lambda)
                               ELSE AxisAtMax(nu, counts.v)
             IN  Ok(<<RDiv(limit, max_count), max_lambda, max_nu>>)

\* DetectorSimulator.getMaxTexp (vector case)
getMaxTexp(d, k, wl, nu, limit) ==
    LET counts == countsPerPixel(d, k, wl, nu, One, TRUE)
    IN  IF counts.err # "none" THEN Fail(counts.err)
        ELSE LET max_count  == counts.v[ArgMax(counts.v)]
                 max_lambda == IF ~IsNone(wl) THEN AxisAtMax(wl, counts.v)
                               ELSE RDiv(SPEED_OF_LIGHT, AxisAtMax(nu, counts.v))
                 max_nu     == IF ~IsNone(wl)
                               THEN RDiv(SPEED_OF_LIGHT, max_lambda)
                               ELSE AxisAtMax(nu, counts.v)
             IN  IF max_count = Zero THEN Fail("NoSignal")
                 ELSE Ok(<<RDiv(limit, max_count), max_lambda, max_nu>>)

\* DetectorSimulator.Dh: the axis is wl when given, else nu
Dh(d, k, wl, nu) ==
    IF ~d.spectrum THEN Fail("NoSpectrum")
    ELSE LET axis == IF ~IsNone(wl) THEN wl ELSE nu
         IN  IF IsNone(axis) THEN Fail("AttributeError")
             ELSE Ok([j \in 1..Len(axis) |->
                        RDiv(RDiv(RAdd(axis[1], axis[Len(axis)]),
                                  RMul(R(2), d.R)), d.pxPerDeltaL)])

\* DetectorSimulator.E_p: nu is used when given, else c / wl
E_p(wl, nu) ==
    IF IsNone(nu) /\ IsNone(wl) THEN Fail("AxisAmbiguous")
    ELSE LET f == IF IsNone(nu)
                  THEN [j \in 1..Len(wl) |-> RDiv(SPEED_OF_LIGHT, wl[j])]
                  ELSE nu
         IN  Ok([j \in 1..Len(f) |-> RMul(PLANCK_CONSTANT, f[j])])

\* get_I / get_PSD at a scalar wavelength, get_I_nu / get_PSD_nu
get_I(wl) == SourceGetI(IF wl = One THEN 1 ELSE 2)

get_I_nu(nu) ==
    RMul(get_I(RDiv(SPEED_OF_LIGHT, nu)),
         RDiv(SPEED_OF_LIGHT, RMul(nu, nu)))

get_PSD(wl) == LampGetPSD(IF wl = One THEN 1 ELSE 2)

get_PSD_nu(nu) ==
    RMul(get_PSD(RDiv(SPEED_OF_LIGHT, nu)),
         RDiv(SPEED_OF_LIGHT, RMul(nu, nu)))

\* RadianceSpectrum.I with both of its arguments
RadianceSpectrum_I(src, wl, nu) ==
    IF IsNone(wl) /\ ~IsNone(nu) THEN Ok(RMul(src.power_factor, get_I_nu(nu)))
    ELSE IF ~IsNone(wl) /\ IsNone(nu) THEN Ok(RMul(src.power_factor, get_I(wl)))
    ELSE Fail("AxisAmbiguous")

\* PowerSpectrum.PSD with both of its arguments
PowerSpectrum_PSD(l, wl, nu) ==
    LET f == RMul(l.power_factor, RSub(One, l.attenuation))
    IN  IF IsNone(wl) /\ ~IsNone(nu) THEN Ok(RMul(f, get_PSD_nu(nu)))
        ELSE IF ~IsNone(wl) /\ IsNone(nu) THEN Ok(RMul(f, get_PSD(wl)))
        ELSE Fail("AxisAmbiguous")

\* RadianceSpectrum.photons
RadianceSpectrum_photons(src, wl, nu) ==
    IF IsNone(nu) /\ IsNone(wl) THEN Fail("AxisAmbiguous")
    ELSE LET f    == IF IsNone(nu) THEN RDiv(SPEED_OF_LIGHT, wl) ELSE nu
             corr == IF IsNone(nu) THEN RDiv(SPEED_OF_LIGHT, RMul(wl, wl))
                     ELSE One
             I_nu == RadianceSpectrum_I(src, None, f)
         IN  Ok(RMul(RDiv(I_nu.v, RMul(PLANCK_CONSTANT, f)), corr))

\* PowerSpectrum.photons
PowerSpectrum_photons(l, wl, nu) ==
    IF IsNone(nu) /\ IsNone(wl) THEN Fail("AxisAmbiguous")
    ELSE LET f      == IF IsNone(nu) THEN RDiv(SPEED_OF_LIGHT, wl) ELSE nu
             corr   == IF IsNone(nu) THEN RDiv(SPEED_OF_LIGHT, RMul(wl, wl))
                       ELSE One
             PSD_nu == PowerSpectrum_PSD(l, None, f)
         IN  Ok(RMul(RDiv(PSD_nu.v, RMul(PLANCK_CONSTANT, f)), corr))

(***************************************************************************)
(* Operations on the detector                                              *)
(***************************************************************************)

\* what the last call was, on which instance, with which arguments, the
\* electrons it went through, and how it ended
Called(op, k, wl, nu, t, noisy, e, err, v) ==
    [op |-> op, k |-> k, wl |-> wl, nu |-> nu, t |-> t, noisy |-> noisy,
     e |-> e, err |-> err, v |-> v]

UnchangedOthers ==
    UNCHANGED <<N, Ie, texp_approx, t_exp, p, i, count_limit, pointDensity,
                result, stage, filters, source, wrapper, lamp, ui>>

\* DetectorSimulator.set_spectrum (None, or a valid source)
set_spectrum(k, bound) ==
    /\ det' = [det EXCEPT !.spectrum = bound]
    /\ last' = Called("set_spectrum", k, None, None, Zero, FALSE, <<>>, "none",
                      IF bound THEN One ELSE Zero)
    /\ UnchangedOthers

det_electronRatePerPixel(k, wl, nu) ==
    LET r == electronRatePerPixel(det, k, wl, nu)
    IN  /\ last' = Called("electronRatePerPixel", k, wl, nu, Zero, FALSE, <<>>,
                          r.err, r.v)
        /\ UNCHANGED det
        /\ UnchangedOthers

det_electronsPerPixel(k, wl, nu, t, disable_noise) ==
    LET r == electronsPerPixel(det, k, wl, nu, t, disable_noise)
    IN  /\ disable_noise \/ det.rng[k].n < 2 * MaxDraws
        /\ det' = [det EXCEPT !.rng[k] = r.rng]
        /\ last' = Called("electronsPerPixel", k, wl, nu, t, ~disable_noise,
                          <<>>, r.err, r.v)
        /\ UnchangedOthers

det_countsPerPixel(k, wl, nu, t, disable_noise) ==
    LET e == electronsPerPixel(det, k, wl, nu, t, disable_noise)
        r == countsPerPixel(det, k, wl, nu, t, disable_noise)
    IN  /\ disable_noise \/ det.rng[k].n < 2 * MaxDraws
        /\ det' = [det EXCEPT !.rng[k] = r.rng]
        /\ last' = Called("countsPerPixel", k, wl, nu, t, ~disable_noise,
                          e.v, r.err, r.v)
        /\ UnchangedOthers

det_getMaxTexp(k, wl, nu, limit) ==
    LET r == getMaxTexp(det, k, wl, nu, limit)
    IN  /\ last' = Called("getMaxTexp", k, wl, nu, limit, FALSE, <<>>,
                          r.err, r.v)
        /\ UNCHANGED det
        /\ UnchangedOthers

det_Dh(k, wl, nu) ==
    LET r == Dh(det, k, wl, nu)
    IN  /\ last' = Called("Dh", k, wl, nu, Zero, FALSE, <<>>, r.err, r.v)
        /\ UNCHANGED det
        /\ UnchangedOthers

det_E_p(k, wl, nu) ==
    LET r == E_p(wl, nu)
    IN  /\ last' = Called("E_p", k, wl, nu, Zero, FALSE, <<>>, r.err, r.v)
        /\ UNCHANGED det
        /\ UnchangedOthers

source_I(wl, nu) ==
    LET r == RadianceSpectrum_I(source, wl, nu)
    IN  /\ last' = Called("I", 0, wl, nu, Zero, FALSE, <<>>, r.err, r.v)
        /\ UNCHANGED det
        /\ UnchangedOthers

lamp_PSD(wl, nu) ==
    LET r == PowerSpectrum_PSD(lamp, wl, nu)
    IN  /\ last' = Called("PSD", 0, wl, nu, Zero, FALSE, <<>>, r.err, r.v)
        /\ UNCHANGED det
        /\ UnchangedOthers

source_photons(wl, nu) ==
    LET r == RadianceSpectrum_photons(source, wl, nu)
    IN  /\ last' = Called("photons", 0, wl, nu, Zero, FALSE, <<>>, r.err, r.v)
        /\ UNCHANGED det
        /\ UnchangedOthers

lamp_photons(wl, nu) ==
    LET r == PowerSpectrum_photons(lamp, wl, nu)
    IN  /\ last' = Called("lamp.photons", 0, wl, nu, Zero, FALSE, <<>>,
                          r.err, r.v)
        /\ UNCHANGED det
        /\ UnchangedOthers

\* DetectorSimulator.__init__ and CCDPixel.__init__: no spectrum bound, and
\* in each of the two instances a generator of its own
InitDetector ==
    /\ TExpIdle
    /\ stage = <<>>
    /\ filters = <<>>
    /\ wrapper = <<>>
    /\ source = NewRadiance
    /\ lamp = NewPower
    /\ \E G \in GainVals, erate \in RateTables,
          s1 \in RngSeeds, s2 \in RngSeeds :
          det = [G |-> G, ron_le |-> One, ron_he |-> R(2), R |-> R(2),
                 pxPerDeltaL |-> R(2), erate |-> erate, spectrum |-> FALSE,
                 rng |-> <<NewRng(s1), NewRng(s2)>>]
    /\ ui = <<>>
    /\ last = Called("init", 0, None, None, Zero, FALSE, <<>>, "none", Zero)

WlArgs == {None, WlAxis}
NuArgs == {None, NuAxis}

SetSpectrum == \E b \in BOOLEAN : set_spectrum(1, b)

ElectronRatePerPixel ==
    \E wl \in WlArgs, nu \in NuArgs : det_electronRatePerPixel(1, wl, nu)

ElectronsPerPixel ==
    \E wl \in WlArgs, nu \in NuArgs, t \in TVals, disable_noise \in BOOLEAN :
        \E k \in Drawing(disable_noise) :
            det_electronsPerPixel(k, wl, nu, t, disable_noise)

CountsPerPixel ==
    \E wl \in WlArgs, nu \in NuArgs, t \in TVals, disable_noise \in BOOLEAN :
        \E k \in Drawing(disable_noise) :
            det_countsPerPixel(k, wl, nu, t, disable_noise)

GetMaxTexp ==
    \E wl \in WlArgs, nu \in NuArgs, limit \in LimitVals :
        det_getMaxTexp(1, wl, nu, limit)

DetDh == \E wl \in WlArgs, nu \in NuArgs : det_Dh(1, wl, nu)

DetEp == \E wl \in WlArgs, nu \in NuArgs : det_E_p(1, wl, nu)

SourceI ==
    \E wl \in ScalarWl \cup {None}, nu \in ScalarNu \cup {None} : source_I(wl, nu)

LampPSD ==
    \E wl \in ScalarWl \cup {None}, nu \in ScalarNu \cup {None} : lamp_PSD(wl, nu)

SourcePhotons ==
    \E wl \in ScalarWl \cup {None}, nu \in ScalarNu \cup {None} :
        source_photons(wl, nu)

LampPhotons ==
    \E wl \in ScalarWl \cup {None}, nu \in ScalarNu \cup {None} :
        lamp_photons(wl, nu)

\* The detector's pipeline: electron rate, electrons, counts, exposure limit.
NextDetector ==
    \/ SetSpectrum
    \/ ElectronRatePerPixel
    \/ ElectronsPerPixel
    \/ CountsPerPixel
    \/ GetMaxTexp

SpecDetector == InitDetector /\ [][NextDetector]_vars

\* The entry points that take a wavelength or a frequency, of the sources
\* and of the detector.
NextAxis ==
    \/ SetSpectrum
    \/ ElectronRatePerPixel
    \/ DetDh
    \/ DetEp
    \/ SourceI
    \/ LampPSD
    \/ SourcePhotons
    \/ LampPhotons

SpecAxis == InitDetector /\ [][NextAxis]_vars

(***************************************************************************)
(* Sky and instrument parts: radiosim/SkyResponse.py,                      *)
(* radiosim/InstrumentPartResponse.py                                      *)
(***************************************************************************)

\* the stages of the three kinds, and the arguments their setters are given
Kinds       == {"leaf", "sky", "part"}
AnyMults    == {R(-1), Zero, One, R(2)}
AirmassVals == {R(-1), Half, One, <<3, 2>>, R(2), R(3)}
Scalings    == {Zero, One, R(2), R(500)}

\* the airmass columns of the sky table
AirmassList == <<One, R(2)>>

\* the sky table at the axis sample wl, in the column of AirmassList[c]
SkyColumn(wl, c) ==
    IF wl = 1 THEN (IF c = 1 THEN One ELSE <<3, 4>>)
    ELSE (IF c = 1 THEN Half ELSE <<1, 4>>)

\* self._interp((wl, airmass)): linear between the two columns
SkyInterp(wl, airmass) ==
    RAdd(SkyColumn(wl, 1),
         RMul(RDiv(RSub(airmass, AirmassList[1]),
                   RSub(AirmassList[2], AirmassList[1])),
              RSub(SkyColumn(wl, 2), SkyColumn(wl, 1))))

\* SkyResponse.__init__
NewSky ==
    [_exp |-> One, _T |-> 0, _t_scale |-> One, _airmass |-> AirmassList[1]]

\* SkyResponse.set_airmass: the airmass is kept within the table, and the
\* scale is the airmass asked for over the one kept
SkySetAirmass(sky, airmass) ==
    LET kept == IF RLess(airmass, AirmassList[1]) THEN AirmassList[1]
                ELSE IF RLess(AirmassList[Len(AirmassList)], airmass)
                THEN AirmassList[Len(AirmassList)]
                ELSE airmass
    IN  [sky EXCEPT !._airmass = kept, !._t_scale = RDiv(airmass, kept)]

\* SkyResponse.get_t
SkyGetT(sky, wl) == RMul(sky._t_scale, SkyInterp(wl, sky._airmass))

\* InstrumentPartResponse.calc_dust_throughtput
calc_dust_throughtput(part) ==
    LET t_mirror == RSub(One, RMul(part._emis_dust, part._fdust_mirror))
        t_lens   == RSub(One, RMul(part._emis_dust, part._fdust_lens))
        t        == RMul(RPowInt(t_mirror, part._n_mirrors),
                         RPowInt(t_lens, part._n_lenses))
    IN  IF part._area_scaling # One
        THEN RSub(One, RMul(RSub(One, t), part._area_scaling))
        ELSE t

\* InstrumentPartResponse.__init__: one mirror of flat throughput and the
\* default dust cover; _t_dust is computed here and nowhere else
NewPart(area_scaling) ==
    LET part == [_exp |-> One, _T |-> DefaultT, _area_scaling |-> area_scaling,
                 _n_mirrors |-> 1, _n_lenses |-> 0,
                 _fdust_lens |-> Zero, _fdust_mirror |-> <<1, 200>>,
                 _emis_dust |-> Half]
    IN  [f \in DOMAIN part \cup {"_t_dust"} |->
            IF f = "_t_dust" THEN calc_dust_throughtput(part) ELSE part[f]]

\* self._mirror_interp(wl): flat_throughput(0.5)
MirrorT(wl) == Half

\* InstrumentPartResponse.get_t
PartGetT(part, wl) ==
    RMul(part._t_dust, RPowInt(MirrorT(wl), part._n_mirrors))

\* get_t of the stage of kind k
KindGetT(k, st, wl) ==
    IF k = "sky" THEN SkyGetT(st, wl)
    ELSE IF k = "part" THEN PartGetT(st, wl)
    ELSE TCurve(st.curve, wl)

\* x ** e in float64 for an integer e: a negative power of 0 is inf
PowAny(x, e) ==
    IF e[1] < 0 THEN RDiv(One, RPowInt(x, -e[1])) ELSE RPowInt(x, e[1])

\* StageResponse.t on the stage of kind k
KindT(k, st, wl) ==
    IF st._exp = One THEN KindGetT(k, st, wl)
    ELSE PowAny(KindGetT(k, st, wl), st._exp)

\* SkyResponse.set_airmass
set_airmass(airmass) ==
    /\ stage' = [stage EXCEPT !["sky"] = SkySetAirmass(@, airmass)]
    /\ last' = Did("set_airmass", "sky", airmass, "none")
    /\ UNCHANGED <<filters, source, wrapper, lamp>>
    /\ UnchangedTExp

\* InstrumentPartResponse.set_area_scaling
set_area_scaling(scaling) ==
    /\ stage' = [stage EXCEPT !["part"]._area_scaling = scaling]
    /\ last' = Did("set_area_scaling", "part", scaling, "none")
    /\ UNCHANGED <<filters, source, wrapper, lamp>>
    /\ UnchangedTExp

\* one stage of each kind, as constructed
InitKinds ==
    /\ TExpIdle
    /\ \E c \in StageIds, a \in {One, R(2)} :
          stage = [k \in Kinds |->
                      IF k = "sky" THEN NewSky
                      ELSE IF k = "part" THEN NewPart(a)
                      ELSE NewStage(c)]
    /\ filters = <<>>
    /\ source = <<>>
    /\ wrapper = <<>>
    /\ lamp = <<>>
    /\ det = <<>>
    /\ ui = <<>>
    /\ last = Did("init", 0, Zero, "none")

KindSetMultiplicity == \E k \in Kinds, m \in AnyMults : set_multiplicity(k, m)

SetAirmass == \E a \in AirmassVals : set_airmass(a)

SetAreaScaling == \E sc \in Scalings : set_area_scaling(sc)

NextKinds ==
    \/ KindSetMultiplicity
    \/ SetAirmass
    \/ SetAreaScaling

SpecKinds == InitKinds /\ [][NextKinds]_vars

(***************************************************************************)
(* The pixel's electron rate: radiosim/CCDPixel.py:70-102                  *)
(***************************************************************************)

\* the supported band, the wavelength axes a caller may pass (the band, parts
\* of it, one sample of it) and the same band as a frequency axis
BandAxis == <<R(1), R(2), R(3)>>
WlAxes   == {BandAxis, <<R(1), R(3)>>, <<R(1), R(2)>>, <<R(2), R(3)>>, <<R(2)>>}
NuAxes   == {<<R(1), <<3, 2>>, R(3)>>, <<R(1), <<3, 2>>>>}

\* Python's None, for an optional array
NoAxis == <<>>

\* the photon rates handed to the pixel, one per sample
PhotonVals == {Zero, R(4)}

\* self.Brad.photons(wl) and self.Bcryo_mech.photons(wl): stand-in tables
\* for the two black bodies, positive over the band
BradPhotons(w)  == RMul(w, w)
BmechPhotons(w) == RAdd(w, One)

\* scipy.integrate.simps(y, x) for up to three samples: nothing to integrate
\* for one, the trapezoid for two, Simpson's rule for unequal spacing for three
Simps(y, x) ==
    IF Len(x) = 1 THEN Zero
    ELSE IF Len(x) = 2
    THEN RMul(RMul(Half, RSub(x[2], x[1])), RAdd(y[1], y[2]))
    ELSE LET h0  == RSub(x[2], x[1])
             h1  == RSub(x[3], x[2])
             hs  == RAdd(h0, h1)
         IN  RMul(RDiv(hs, R(6)),
                  RAdd(RAdd(RMul(y[1], RSub(R(2), RDiv(h1, h0))),
                            RMul(y[2], RDiv(RMul(hs, hs), RMul(h0, h1)))),
                       RMul(y[3], RSub(R(2), RDiv(h0, h1)))))

\* lines 77-81: the wavelength axis used, and the sign of the integral
PixelAxis(wl, nu) ==
    IF wl = NoAxis THEN [k \in 1..Len(nu) |-> RDiv(SPEED_OF_LIGHT, nu[k])]
    ELSE wl

PixelSign(wl) == IF wl = NoAxis THEN R(-1) ELSE One

\* lines 83-92: the electrons per second and metre excited by the thermal
\* photons of the radiation shield and of the cryostat, at each sample
Epixel(px, w) ==
    [k \in 1..Len(w) |->
        RMul(px.QE,
             RMul(RAdd(RMul(px.trad_cone, BradPhotons(w[k])),
                       RMul(px.tmech_cone, BmechPhotons(w[k]))),
                  px.pixel_area))]

\* line 101: what is added to every sample
Background(px, wl, nu) ==
    RMul(PixelSign(wl), Simps(Epixel(px, PixelAxis(wl, nu)), PixelAxis(wl, nu)))

\* CCDPixel.electronRatePerPixel with a float QE
CCD_electronRatePerPixel(px, photons, wl, nu) ==
    [k \in 1..Len(photons) |->
        RAdd(RMul(px.QE, photons[k]), Background(px, wl, nu))]

\* a call of the pixel's electronRatePerPixel and what it returned
Rated(photons, wl, nu, v) ==
    [op |-> "pixel.electronRatePerPixel", photons |-> photons, wl |-> wl,
     nu |-> nu, err |-> "none", v |-> v]

pixel_electronRatePerPixel(photons, wl, nu) ==
    /\ last' = Rated(photons, wl, nu,
                     CCD_electronRatePerPixel(det, photons, wl, nu))
    /\ UNCHANGED det
    /\ UnchangedOthers

\* CCDPixel.__init__: the quantum efficiency and the cones of the detector
InitPixel ==
    /\ TExpIdle
    /\ stage = <<>>
    /\ filters = <<>>
    /\ source = <<>>
    /\ wrapper = <<>>
    /\ lamp = <<>>
    /\ \E QE \in {Half, One}, trad_cone \in {Zero, One},
          tmech_cone \in {One, R(2)} :
          det = [QE |-> QE, trad_cone |-> trad_cone, tmech_cone |-> tmech_cone,
                 pixel_area |-> One]
    /\ ui = <<>>
    /\ last = Did("init", 0, Zero, "none")

RateOnWavelengths ==
    \E wl \in WlAxes : \E photons \in [1..Len(wl) -> PhotonVals] :
        pixel_electronRatePerPixel(photons, wl, NoAxis)

RateOnFrequencies ==
    \E nu \in NuAxes : \E photons \in [1..Len(nu) -> PhotonVals] :
        pixel_electronRatePerPixel(photons, NoAxis, nu)

NextPixel == RateOnWavelengths \/ RateOnFrequencies

SpecPixel == InitPixel /\ [][NextPixel]_vars

(***************************************************************************)
(* Evaluations: the calls that compute a value from the configuration      *)
(***************************************************************************)

\* an evaluation of op on tgt at wl, of the input x, and how it ended
Evaluated(op, tgt, wl, x, thermal, r) ==
    [op |-> op, tgt |-> tgt, wl |-> wl, x |-> x, thermal |-> thermal,
     noisy |-> FALSE, err |-> r.err, v |-> r.v]

\* StageResponse.t on a leaf stage
stage_t(s, wl) ==
    /\ last' = Evaluated("stage.t", s, wl, Zero, FALSE, Ok(StageT(stage[s], wl)))
    /\ UNCHANGED optVars
    /\ UNCHANGED texpVars

\* StageResponse.apply on a leaf stage
stage_apply(s, wl, x, thermal) ==
    /\ last' = Evaluated("stage.apply", s, wl, x, thermal,
                         apply_scalar(stage[s], wl, x, thermal))
    /\ UNCHANGED optVars
    /\ UNCHANGED texpVars

\* CompoundResponse.get_t on the filter chain
filters_get_t(wl) ==
    /\ last' = Evaluated("filters.get_t", 0, wl, Zero, FALSE,
                         Ok(compound_get_t(stage, filters._stages, wl)))
    /\ UNCHANGED optVars
    /\ UNCHANGED texpVars

\* CompoundResponse.apply on the filter chain
filters_apply(wl, x, thermal) ==
    /\ last' = Evaluated("filters.apply", 0, wl, x, thermal,
                         compound_apply(stage, filters, wl, x, thermal))
    /\ UNCHANGED optVars
    /\ UNCHANGED texpVars

\* an I() on the AttenuatedSpectrum that leaves the wavelength it was asked
\* for in the cache of the peak
wrapper_I_caching(wl) ==
    /\ last' = Evaluated("wrapper.I", 0, wl, Zero, TRUE,
                         AttenuatedI(wrapper, source, stage, filters, wl))
    /\ wrapper' = [wrapper EXCEPT !.max_wl = R(wl)]
    /\ UNCHANGED <<stage, filters, source, lamp, det, ui>>
    /\ UNCHANGED texpVars

\* RadianceSpectrum.I on the AttenuatedSpectrum, through its get_I
wrapper_I(wl) ==
    /\ last' = Evaluated("wrapper.I", 0, wl, Zero, TRUE,
                         AttenuatedI(wrapper, source, stage, filters, wl))
    /\ UNCHANGED optVars
    /\ UNCHANGED texpVars

\* one detector and its stages as set up by a run: the f-numbers set, the
\* second stage without background emission
InitEval ==
    /\ TExpIdle
    /\ stage = [s \in StageIds |->
                  IF s = 1
                  THEN [NewStage(s) EXCEPT !.to_irradiance = ToIrradiance(R(2))]
                  ELSE [NewStage(s) EXCEPT !._background = FALSE]]
    /\ filters = NewCompound
    /\ source = NewRadiance
    /\ wrapper = NewAttenuated
    /\ lamp = NewPower
    /\ \E erate \in {<<R(3), R(2), Zero>>, <<R(-1), R(2), R(3)>>} :
          det = [G |-> R(2), ron_le |-> One, ron_he |-> R(2), R |-> R(2),
                 pxPerDeltaL |-> R(2), erate |-> erate, spectrum |-> FALSE,
                 rng |-> <<NewRng(0), NewRng(1)>>]
    /\ ui = <<>>
    /\ last = Did("init", 0, Zero, "none")

StageTAt == \E s \in StageIds, wl \in Wavelengths : stage_t(s, wl)

StageApply ==
    \E s \in StageIds, wl \in Wavelengths, x \in XVals, thermal \in BOOLEAN :
        stage_apply(s, wl, x, thermal)

FiltersGetT == \E wl \in Wavelengths : filters_get_t(wl)

FiltersApply ==
    \E wl \in Wavelengths, x \in XVals, thermal \in BOOLEAN :
        filters_apply(wl, x, thermal)

WrapperEvalI == \E wl \in Wavelengths : wrapper_I(wl)

\* electrons and counts on the first instance, on the wavelength axis
EvalElectrons ==
    \E wl \in WlArgs, t \in TVals, disable_noise \in BOOLEAN :
        det_electronsPerPixel(1, wl, None, t, disable_noise)

EvalCounts ==
    \E wl \in WlArgs, t \in TVals, disable_noise \in BOOLEAN :
        det_countsPerPixel(1, wl, None, t, disable_noise)

\* the configuration changes between evaluations of every kind
NextEval ==
    \/ PushFilter
    \/ AttenuatedSetAttenuation
    \/ SetSpectrum
    \/ StageTAt
    \/ StageApply
    \/ FiltersGetT
    \/ FiltersApply
    \/ WrapperEvalI
    \/ SourceI
    \/ SourcePhotons
    \/ LampPSD
    \/ LampPhotons
    \/ ElectronRatePerPixel
    \/ EvalElectrons
    \/ EvalCounts

SpecEval == InitEval /\ [][NextEval]_vars

(***************************************************************************)
(* Properties of the estimator                                             *)
(***************************************************************************)

\* np.trapz(d, t): trapezoid rule over the grid t
Trapz(t, d) ==
    RSum([k \in 1..(Len(t) - 1) |->
            RMul(RMul(Half, RAdd(d[k], d[k + 1])), RSub(t[k + 1], t[k]))])

\* sum(d * dt): rectangle rule with the grid spacing dt
RectSum(d) == RSum([k \in 1..Len(d) |-> RMul(d[k], dt)])

\* C1: the index i starts at 0, never decreases and never exceeds N, so
\* progress() = i/N never decreases, and progress() = 1 exactly when done().
C1_IndexMonotone ==
    [][/\ last.op = "init" => i = 0
       /\ i \in 0..N /\ i' \in 0..N
       /\ i' >= i
       /\ RLeq(progress, progress')
       /\ (progress = One) <=> done
       /\ (progress' = One) <=> done']_vars

\* a work() call has moved the index part of the way, then to the end
C1_Witness == last.op = "work" /\ last.i0 > 0 /\ last.i0 < i /\ done

\* C2: once done(), a work() call changes neither the index, nor the density,
\* nor the grid, nor the rate, and done() stays true after every operation.
C2_DoneAbsorbing ==
    [][done =>
        /\ i' = N'
        /\ (last'.op = "work" =>
               /\ i' = i /\ p' = p /\ t_exp' = t_exp /\ Ie' = Ie
               /\ last'.err = "none")]_vars

\* work() was called on an estimator that was already done, with a budget
C2_Witness ==
    /\ last.op = "work" /\ last.i0 = N /\ last.arg > 0
    /\ \E k \in 1..N : p[k] # Zero

RECURSIVE ProductOfMembers(_, _)
ProductOfMembers(k, wl) ==
    IF k = 0 THEN One
    ELSE RMul(ProductOfMembers(k - 1, wl),
              StageT(stage[filters._stages[k]], wl))

PipelineT(wl) == compound_get_t(stage, filters._stages, wl)

\* the same stages with no temperature and no background emission
ColdDark(stg) ==
    [s \in StageIds |->
        [stg[s] EXCEPT !._T = 0, !.bbT = 0, !._background = FALSE]]

\* C5: get_t of a pipeline is the product of its members' transmittances at
\* every axis value, and it is what the same pipeline gives with every
\* stage's temperature at 0 and background emission off.
C5_PipelineProduct ==
    \A wl \in Wavelengths :
        /\ PipelineT(wl) = ProductOfMembers(Len(filters._stages), wl)
        /\ PipelineT(wl) = compound_get_t(ColdDark(stage), filters._stages, wl)

\* two different stages at different temperatures are in the pipeline
C5_Witness ==
    /\ last.op = "set_temperature"
    /\ filters._stages = <<1, 2>>
    /\ stage[1]._T # stage[2]._T
    /\ PipelineT(2) = <<1, 4>>
    /\ PipelineT(1) = Zero

WrapperI(w, wl) == AttenuatedI(w, source, stage, filters, wl)

Unattenuated(o) == [o EXCEPT !.attenuation = Zero]

\* what the filter chain emits on its own
ChainBackground(wl) == compound_apply(stage, filters, wl, Zero, TRUE)

\* no stage of the chain adds background
NoBackgroundStage ==
    \A k \in 1..Len(filters._stages) :
        LET st == stage[filters._stages[k]]
        IN  ~st._background \/ st._T <= 0

C7_AdjustThroughWrapper ==
    (last.op \in {"source.adjust_power", "wrapper.adjust_power"}
        /\ source.power # None) =>
        /\ last.err = "none"
        /\ source.power_factor = RDiv(last.arg, source.power)
        /\ filters._stages = <<>> =>
               \A wl \in Wavelengths :
                   WrapperI(wrapper, wl) =
                       Ok(RMul(RMul(RDiv(last.arg, source.power),
                                    RSub(One, wrapper.attenuation)),
                               SourceGetI(wl)))

InUnitRange(a) == RLeq(Zero, a) /\ RLeq(a, One)

\* C8: set_attenuation(a) with a outside [0,1] fails on every source that
\* offers it and stores nothing, so the stored attenuation is in [0,1].
C8_AttenuationInRange ==
    /\ InUnitRange(wrapper.attenuation)
    /\ InUnitRange(lamp.attenuation)
    /\ (last.op \in {"AttenuatedSpectrum.set_attenuation",
                     "PowerSpectrum.set_attenuation"}
          /\ ~InUnitRange(last.arg)) => last.err = "InvalidAttenuation"

\* C9: adjust_power on a source without a nominal rating fails; such a source
\* has power_factor 1, before and after the call, and its density is not
\* scaled.
C9_NoRatingNoAdjust ==
    /\ (last.op = "source.adjust_power" /\ source.power = None) =>
           last.err = "PowerNotAdjustable"
    /\ (last.op = "lamp.adjust_power" /\ lamp.power = None) =>
           last.err = "PowerNotAdjustable"
    /\ (last.op = "wrapper.adjust_power" /\ wrapper.power = None) =>
           last.err = "PowerNotAdjustable"
    /\ source.power = None =>
           /\ source.power_factor = One
           /\ \A wl \in Wavelengths : RadianceI(source, wl) = SourceGetI(wl)
    /\ lamp.power = None =>
           /\ lamp.power_factor = One
           /\ \A wl \in Wavelengths :
                  PSD(lamp, wl) =
                      RMul(RSub(One, lamp.attenuation), LampGetPSD(wl))
    /\ wrapper.power = None => wrapper.power_factor = One

\* adjust_power has just failed on sources without a rating
C9_Witness ==
    /\ last.op = "source.adjust_power" /\ last.err = "PowerNotAdjustable"
    /\ source.power = None /\ source.power_factor = One
    /\ RadianceI(source, 2) = R(8)
    /\ lamp.power = None /\ lamp.attenuation = Zero
    /\ PSD(lamp, 1) = R(6)

(***************************************************************************)
(* Properties of the composite pipeline                                    *)
(***************************************************************************)

\* C11: on a pipeline built with repeat_train = True, set_multiplicity(m)
\* succeeds and stores m as the pipeline's own multiplicity, leaving the
\* members' multiplicities alone; on any other pipeline it sets m on every
\* member stage.
C11_RepeatTrainMultiplicity ==
    last.op = "compound_set_multiplicity" =>
        /\ last.err = "none"
        /\ IF filters._repeat_train
           THEN filters._exp = last.arg
           ELSE \A k \in 1..Len(filters._stages) :
                    stage[filters._stages[k]]._exp = last.arg

\* the multiplicities a pipeline is evaluated with
TrainMults == {R(-1), Zero, Half, One, <<3, 2>>}

\* the output of the k-th stage of the list ss when the list is fed x: each
\* stage takes the output of the one before it and adds the background of
\* its own temperature when thermal emission is asked for
RECURSIVE StageOutput(_, _, _, _, _, _)
StageOutput(stg, ss, wl, x, thermal, k) ==
    IF k = 0 THEN Ok(x)
    ELSE LET prev == StageOutput(stg, ss, wl, x, thermal, k - 1)
             st   == stg[ss[k]]
             t    == StageT(st, wl)
         IN  IF prev.err # "none" THEN prev
             ELSE IF st._T > 0 /\ st._background /\ thermal
             THEN IF RLess(st.to_irradiance, Zero) THEN Fail("FnumNotSet")
                  ELSE Ok(RAdd(RMul(t, prev.v),
                               RMul(RSub(One, t),
                                    RMul(st.to_irradiance, Planck(wl, st._T)))))
             ELSE Ok(RMul(t, prev.v))

\* n passes through the whole list, none when n <= 0
RECURSIVE Passes(_, _, _, _, _, _)
Passes(stg, ss, wl, x, thermal, n) ==
    IF n <= 0 THEN Ok(x)
    ELSE LET prev == Passes(stg, ss, wl, x, thermal, n - 1)
         IN  IF prev.err # "none" THEN prev
             ELSE StageOutput(stg, ss, wl, prev.v, thermal, Len(ss))

\* a chain short enough for two thermal passes to stay within the integers
ShortChain == \A k \in 1..Len(filters._stages) :
                  k = 1 /\ stage[filters._stages[k]]._exp = One

\* apply with the pipeline's multiplicity set to m, against n = round(m)
\* passes in list order; two thermal passes are evaluated on short chains
ThreadsInOrder ==
    \A wl \in Wavelengths, m \in TrainMults :
        LET thermal == Round(m) <= 1 \/ ShortChain
            x       == R(4)
            out     == compound_apply(stage, [filters EXCEPT !._exp = m],
                                      wl, x, thermal)
        IN  /\ out = Passes(stage, filters._stages, wl, x, thermal, Round(m))
            /\ Round(m) <= 0 => out = Ok(x)

\* C12: push_back puts the stage at the end of the stage list and push_front
\* at its head, and apply threads the input through the list in that order,
\* the output of each stage being the input of the next and each stage
\* adding background at its own temperature; the pass is repeated
\* round(multiplicity) times and for round(multiplicity) <= 0 the input
\* comes back unchanged.
C12_ThreadsInListOrder ==
    /\ last.op = "push_back" =>
           /\ filters._stages # <<>>
           /\ filters._stages[Len(filters._stages)] = last.tgt
    /\ last.op = "push_front" =>
           /\ filters._stages # <<>>
           /\ filters._stages[1] = last.tgt
    /\ ThreadsInOrder

\* a chain of two different stages, the first pushed at the front, both
\* adding background, at different temperatures
C12_Witness ==
    /\ last.op = "push_front"
    /\ Len(filters._stages) = 2
    /\ filters._stages[1] # filters._stages[2]
    /\ \A k \in 1..2 : /\ stage[filters._stages[k]]._background
                        /\ stage[filters._stages[k]]._T > 0
                        /\ stage[filters._stages[k]].to_irradiance # R(-1)
    /\ stage[filters._stages[1]]._T # stage[filters._stages[2]]._T

(***************************************************************************)
(* Properties of the detector                                              *)
(***************************************************************************)

\* the counts of the bound source at t = 1 with noise disabled
CountsAt1 == [j \in 1..AxisLen |-> RDiv(RMax(Zero, det.erate[j]), det.G)]

\* exactly one of the two axis arguments of the last call was given
OneAxis == IsNone(last.wl) # IsNone(last.nu)

\* C13: getMaxTexp over an axis of several values returns count_limit / c*,
\* c* being the largest count at t = 1 with noise disabled, and reports the
\* axis value found at the index of that largest count (and its counterpart
\* c / value on the other axis).
C13_MaxAtArgmaxIndex ==
    (last.op = "getMaxTexp" /\ last.err = "none") =>
        \E m \in 1..AxisLen :
            /\ \A j \in 1..AxisLen : RLeq(CountsAt1[j], CountsAt1[m])
            /\ last.v[1] = RDiv(last.t, CountsAt1[m])
            /\ IF ~IsNone(last.wl)
               THEN /\ last.v[2] = last.wl[m]
                    /\ last.v[3] = RDiv(SPEED_OF_LIGHT, last.wl[m])
               ELSE /\ last.v[3] = last.nu[m]
                    /\ last.v[2] = RDiv(SPEED_OF_LIGHT, last.nu[m])

\* getMaxTexp over wavelengths found the largest count past the first
\* sample, where the count value is not the index
C13_Witness ==
    /\ last.op = "getMaxTexp" /\ last.err = "none" /\ ~IsNone(last.wl)
    /\ last.v[2] = WlAxis[2]
    /\ Floor(CountsAt1[2]) # 2

\* C14: with a spectrum bound and one axis given, getMaxTexp fails with
\* NoSignal exactly when the largest count at t = 1 (noise disabled) is 0,
\* returning nothing then, and otherwise returns a finite positive t_max.
C14_NoSignalIffZero ==
    (last.op = "getMaxTexp" /\ det.spectrum /\ OneAxis) =>
        LET c == CountsAt1[ArgMax(CountsAt1)]
        IN  /\ (last.err = "NoSignal") <=> (c = Zero)
            /\ last.err = "NoSignal" => last.v = NaN
            /\ c # Zero => /\ last.err = "none"
                           /\ IsFinite(last.v[1])
                           /\ RLess(Zero, last.v[1])

\* getMaxTexp was refused for a source that gives no counts
C14_Witness ==
    /\ last.op = "getMaxTexp" /\ last.err = "NoSignal"
    /\ \E j \in 1..AxisLen : RLess(det.erate[j], Zero)

C17_NoSpectrumRefused ==
    last.op \in {"electronRatePerPixel", "electronsPerPixel",
                 "countsPerPixel", "getMaxTexp"} =>
        /\ (last.err = "NoSpectrum") <=> ~det.spectrum
        /\ ~det.spectrum => last.v = NaN

\* a noisy call on a detector without spectrum was refused before it drew
C17_Witness ==
    /\ last.op = "countsPerPixel" /\ last.err = "NoSpectrum" /\ last.noisy
    /\ OneAxis
    /\ det.rng[last.k].n = 0

\* C18: every evaluation entry point fails when it is given both a
\* wavelength and a frequency and when it is given neither, and computes a
\* value when it is given exactly one.
C18_ExactlyOneAxis ==
    (/\ last.op \in {"I", "PSD", "photons", "lamp.photons", "Dh", "E_p",
                     "electronRatePerPixel"}
     /\ last.op \in {"Dh", "electronRatePerPixel"} => det.spectrum) =>
        (last.err = "none") <=> OneAxis

\* C19: two detector instances built with the same configuration return
\* the same noisy electrons for the same sequence of calls: the first noisy
\* call on one returns what the first such call on the other will return.
C19_SameConfigSameNoise ==
    \A k \in Instances, o \in Instances :
        (/\ last.op = "electronsPerPixel" /\ last.err = "none" /\ last.noisy
         /\ last.k = k /\ o # k
         /\ det.rng[k].n = 2 /\ det.rng[o].n = 0) =>
            last.v = pixel_electronsPerPixel(det, det.rng[o], det.erate,
                                             last.t, TRUE).v

\* C20: the density returned by get_result contains no NaN, whatever the
\* accumulated values were.
C20_NoNaNInResult ==
    last.op = "get_result" => \A k \in 1..N : ~IsNaN(result.d[k])

(***************************************************************************)
(* Properties of pruning                                                   *)
(***************************************************************************)

\* the stages of ss whose label is not in what, in the order of ss
Kept(stg, ss, what) == SelectSeq(ss, LAMBDA s : stg[s]._label \notin what)

\* C21: after prune(L) the stage list is the previous list without the
\* stages whose label is in L, the others in their previous order and with
\* their settings as they were; when no stage has a label in L the list is
\* as it was, and a second prune(L) would change nothing.
C21_PruneRemovesLabelled ==
    last.op = "prune" =>
        /\ filters._stages = Kept(last.stage0, last.before, last.what)
        /\ stage = last.stage0
        /\ (\A k \in 1..Len(last.before) :
                stage[last.before[k]]._label \notin last.what) =>
               filters._stages = last.before
        /\ PruneLoop(stage, filters._stages, last.what, <<>>) = filters._stages

\* a labelled stage was pruned out of the head of a chain whose other stage,
\* with another label and its f-number set, stayed
C21_Witness ==
    /\ last.op = "prune"
    /\ Len(last.before) = MaxStages
    /\ Len(filters._stages) = MaxStages - 1
    /\ stage[last.before[1]]._label \in last.what
    /\ "M3" \in last.what
    /\ stage[filters._stages[1]]._label = "M2"
    /\ stage[filters._stages[1]].to_irradiance # R(-1)

(***************************************************************************)
(* Properties of the evaluations                                           *)
(***************************************************************************)

EvalOps == {"stage.t", "stage.apply", "filters.get_t", "filters.apply",
            "wrapper.I", "I", "photons", "PSD", "lamp.photons",
            "electronRatePerPixel", "electronsPerPixel", "countsPerPixel"}

\* a call without what it returned
Asked(c) == [c EXCEPT !.err = "none", !.v = Zero]

\* C22: an evaluation made with noise disabled leaves the stages, the chain
\* and its order, the sources, the attenuation, the power factors, the cached
\* peak and the detector as they were, and when it repeats the call made
\* just before it, it returns what that call returned.
C22_EvaluationsArePure ==
    [][(last'.op \in EvalOps /\ ~last'.noisy) =>
          /\ UNCHANGED <<stage, filters, source, wrapper, lamp, det>>
          /\ (last.op = last'.op /\ Asked(last) = Asked(last')) =>
                 last' = last]_vars

\* the attenuated source was evaluated through a chain of two stages, with an
\* attenuation and a spectrum set and after a noisy draw
C22_Witness ==
    /\ last.op = "wrapper.I" /\ last.err = "none" /\ last.v # Zero
    /\ Len(filters._stages) = 2
    /\ wrapper.attenuation = Half
    /\ det.spectrum
    /\ det.rng[1].n > 0

(***************************************************************************)
(* Properties of the transmittances                                        *)
(***************************************************************************)

\* C23: the effective transmittance of every stage is within [0, 1] at every
\* axis sample, whatever set_multiplicity, set_airmass and set_area_scaling
\* were given.
C23_TransmittanceInUnitInterval ==
    \A k \in Kinds, wl \in Wavelengths :
        /\ RLeq(Zero, KindT(k, stage[k], wl))
        /\ RLeq(KindT(k, stage[k], wl), One)

(***************************************************************************)
(* Properties of the pixel's electron rate                                 *)
(***************************************************************************)

\* C24: the thermal background of one electron_rate call is one value, the
\* same at every sample, and it is the integral over the whole supported
\* band, whichever samples of the band the caller passed.
C24_BackgroundOverWholeBand ==
    last.op = "pixel.electronRatePerPixel" =>
        \A k \in 1..Len(last.v) :
            RSub(last.v[k], RMul(det.QE, last.photons[k])) =
                Background(det, BandAxis, NoAxis)

(***************************************************************************)
(* Properties of the estimator's hosts                                     *)
(***************************************************************************)

\* C25: in every state, the one left by a work() call that raised part-way
\* included, every density entry at an index >= i is still 0.
C25_UnprocessedEntriesZero == \A k \in (i + 1)..N : p[k] = Zero

\* C26 as stated: while i < N, a work() call with a positive budget processes
\* at least one grid point.
C26_PositiveBudgetAdvances ==
    (last.op = "work" /\ last.arg > 0 /\ last.i0 < N) => i > last.i0

\* C26 amended: a work() call processes the points that fit in its budget,
\* which may be none: with a budget no clock reading reaches, a call that
\* returns leaves the estimator done; with a budget of 0, and when it raises,
\* it leaves the index where it was; it never moves the index back.
C26_AsManyAsFit ==
    last.op = "work" =>
        /\ last.i0 <= i /\ i <= N
        /\ (last.err = "none" /\ last.arg > MaxElapsed) => done
        /\ last.arg = 0 => i = last.i0
        /\ last.err # "none" => i = last.i0

\* a work() call with a positive budget returned without processing any
\* point of an unfinished grid: the clock had passed the budget at its
\* first test
C26_Witness ==
    /\ last.op = "work" /\ last.err = "none" /\ last.arg > 0
    /\ i = last.i0 /\ i < N
    /\ ~PoissonRaises(i)

(***************************************************************************)
(* SimUI: the window's host loop around the exposure-time estimator.       *)
(* ui.frames is the stack of run_texp_simulation calls in progress (the    *)
(* innermost last); every call owns its simulator.  ui.pending holds the   *)
(* clicks Qt has queued and not yet delivered.                             *)
(***************************************************************************)

MaxRuns    == 3   \* plot and overlay requests made in one behaviour
MaxPending == 2   \* clicks queued and not yet delivered
MaxGrid    == 2   \* largest grid of an estimator created by the window

Clicks == {"plot", "overlay", "stop"}

\* what the last step of the host did
UiDid(op, run, asked, isdone, outcome, plotted) ==
    [op |-> op, run |-> run, asked |-> asked, done |-> isdone,
     outcome |-> outcome, plotted |-> plotted]

Top == ui.frames[Len(ui.frames)]

\* TExpSimulator.done on the simulator of a call
SimDone(sim) == sim.i = sim.N

\* SimUiWindow's tExpPlotButton, tExpOverlayButton and tExpStopButton: a
\* click is queued; the stop button takes clicks only while it is enabled,
\* the other two always
Click(e) ==
    /\ Len(ui.pending) < MaxPending
    /\ e = "stop" => ui.running
    /\ e # "stop" => ui.requested < MaxRuns
    /\ ui' = [ui EXCEPT !.pending = Append(@, e),
                        !.requested = IF e = "stop" THEN @ ELSE @ + 1]
    /\ last' = UiDid("click", Len(ui.frames), FALSE, FALSE, "none", FALSE)

\* SimUI.on_texp_cancelled: every call in progress has now been asked to stop
on_texp_cancelled ==
    /\ ui' = [ui EXCEPT !.pending = Tail(@),
                        !.tExpCancelled = TRUE,
                        !.frames = [k \in DOMAIN @ |-> [@[k] EXCEPT !.asked = TRUE]]]
    /\ last' = UiDid("stop", Len(ui.frames), TRUE, FALSE, "none", FALSE)

\* SimUI.on_plot_texp / on_overlay_texp up to the loop of run_texp_simulation:
\* clear_texp for a plot request, create_simulator, the TExpSimulator, the
\* flag, the indicator.  raises: create_simulator or the constructor raised,
\* which simulate_texp_and_plot reports in its dialog.
StartRun(e, n, bad, raises) ==
    IF raises
    THEN /\ ui' = [ui EXCEPT !.pending = Tail(@),
                             !.plots = IF e = "plot" THEN 0 ELSE @]
         /\ last' = UiDid("end", Len(ui.frames) + 1, FALSE, FALSE, "error", FALSE)
    ELSE /\ ui' = [ui EXCEPT !.pending = Tail(@),
                             !.plots = IF e = "plot" THEN 0 ELSE @,
                             !.detsim = @ + 1,
                             !.tExpCancelled = FALSE,
                             !.running = TRUE,
                             !.frames = Append(@, [sim |-> [i |-> 0, N |-> n,
                                                            bad |-> bad,
                                                            det |-> ui.detsim + 1],
                                                   pc |-> "test",
                                                   asked |-> FALSE])]
         /\ last' = UiDid("start", Len(ui.frames) + 1, FALSE, FALSE, "none", FALSE)

\* the slot connected to a click (SimUI.connect_all)
Deliver ==
    IF Head(ui.pending) = "stop"
    THEN on_texp_cancelled
    ELSE \E n \in 1..MaxGrid : \E bad \in 0..n : \E raises \in BOOLEAN :
             StartRun(Head(ui.pending), n, bad, raises)

\* the loop test of run_texp_simulation found work to do: simulator.work()
\* processes the points i..k-1 (as many as its clock allows) and raises at
\* point bad; then the progress bar is set and processEvents is entered
LoopWork(k) ==
    LET f == Top
        d == Len(ui.frames)
    IN  IF f.sim.bad >= f.sim.i /\ f.sim.bad < k
        THEN \* the exception leaves run_texp_simulation; the dialog is shown
             /\ ui' = [ui EXCEPT !.frames = SubSeq(@, 1, Len(@) - 1)]
             /\ last' = UiDid("work", d, f.asked, FALSE, "error", FALSE)
        ELSE /\ ui' = [ui EXCEPT !.frames[d].sim.i = k,
                                 !.frames[d].pc = "events"]
             /\ last' = UiDid("work", d, f.asked, FALSE, "none", FALSE)

\* the loop test failed: the indicator is switched off, the result is
\* fetched if the simulator is done, and simulate_texp_and_plot plots it
LoopExit ==
    LET f == Top
        d == Len(ui.frames)
        fin == SimDone(f.sim)
    IN  /\ ui' = [ui EXCEPT !.frames = SubSeq(@, 1, Len(@) - 1),
                            !.running = FALSE,
                            !.plots = IF fin THEN @ + 1 ELSE @]
        /\ last' = UiDid("end", d, f.asked, fin,
                         IF fin THEN "result" ELSE "none", fin)

UnchangedModel ==
    UNCHANGED <<N, Ie, texp_approx, t_exp, p, i, count_limit, pointDensity,
                result, stage, filters, source, wrapper, lamp, det>>

\* the window after SimUI.__init__: nothing running, nothing queued
InitUi ==
    /\ TExpIdle
    /\ stage = <<>>
    /\ filters = <<>>
    /\ source = <<>>
    /\ wrapper = <<>>
    /\ lamp = <<>>
    /\ det = <<>>
    /\ ui = [frames |-> <<>>, tExpCancelled |-> FALSE, running |-> FALSE,
             pending |-> <<>>, plots |-> 0, requested |-> 0, detsim |-> 0]
    /\ last = UiDid("init", 0, FALSE, FALSE, "none", FALSE)

\* the user clicks a button of the exposure-time tab
UiClick ==
    /\ \E e \in Clicks : Click(e)
    /\ UnchangedModel

\* SimUI.run: app.exec() delivers a queued click while no estimation runs
MainLoop ==
    /\ ui.frames = <<>>
    /\ ui.pending # <<>>
    /\ Deliver
    /\ UnchangedModel

\* one test of the while loop of run_texp_simulation and what follows it
RunLoop ==
    /\ ui.frames # <<>>
    /\ Top.pc = "test"
    /\ IF ~SimDone(Top.sim) /\ ~ui.tExpCancelled
       THEN \E k \in Top.sim.i..Top.sim.N : LoopWork(k)
       ELSE LoopExit
    /\ UnchangedModel

\* QApplication.processEvents() inside the loop: queued clicks are delivered
\* to their slots, then the loop goes on
ProcessEvents ==
    /\ ui.frames # <<>>
    /\ Top.pc = "events"
    /\ IF ui.pending # <<>>
       THEN Deliver
       ELSE /\ ui' = [ui EXCEPT !.frames[Len(ui.frames)].pc = "test"]
            /\ last' = UiDid("events", Len(ui.frames), Top.asked, FALSE,
                             "none", FALSE)
    /\ UnchangedModel

NextUi == UiClick \/ MainLoop \/ RunLoop \/ ProcessEvents

SpecUi == InitUi /\ [][NextUi]_vars

(***************************************************************************)
(* Properties of the host loop                                             *)
(***************************************************************************)

\* C27: once the stop request has been delivered while an estimation runs,
\* work() is not called again for that estimation; a result is returned only
\* by a simulator that is done; a cancelled unfinished estimation returns
\* None and plots nothing.
C27_CancelStopsWork ==
    /\ last.op = "work" => ~last.asked
    /\ (last.op = "end" /\ last.outcome = "result") => last.done
    /\ (last.op = "end" /\ last.asked /\ ~last.done) =>
           (last.outcome = "none" /\ ~last.plotted)

\* C28: when run_texp_simulation has ended, for any reason, the indicator is
\* off; the indicator is on only while a loop is executing.
C28_IndicatorFollowsLoop ==
    /\ ((last.op = "end" \/ (last.op = "work" /\ last.outcome = "error"))
           /\ ui.frames = <<>>) => ~ui.running
    /\ ui.running => ui.frames # <<>>

\* C29: at most one estimation loop is active: a plot or overlay request
\* delivered by processEvents starts no nested run that resets the flag or
\* replaces the detector the running loop was created with.
C29_AtMostOneLoop ==
    /\ Len(ui.frames) <= 1
    /\ \A k \in DOMAIN ui.frames :
           /\ ui.frames[k].sim.det = ui.detsim
           /\ ui.frames[k].asked => ui.tExpCancelled

(***************************************************************************)
(* The cached peak of the AttenuatedSpectrum: radiosim/AttenuatedSpectrum, *)
(* with a LineSpectrum, an OverlappedSpectrum or an                        *)
(* InterpolatedPowerSpectrum as the inner source                           *)
(***************************************************************************)

MaxLines == 2   \* lines added to a LineSpectrum, spectra pushed to an OverlappedSpectrum

LineWl   == {1, 2}        \* wavelengths of the added lines, in micrometres
LineFrel == {Half, One}   \* their relative fluxes

\* micrometres to metres, as add_line converts them
Micro(w) == RMul(R(w), <<1, 1000000>>)

\* LineSpectrum.__init__
NewLine ==
    [kind |-> "line", power |-> None, power_factor |-> One, native_wl |-> <<>>,
     lines |-> <<>>, frel_max |-> Zero, lambda_max |-> Zero]

\* OverlappedSpectrum.__init__
NewOverlapped ==
    [kind |-> "overlapped", power |-> None, power_factor |-> One,
     native_wl |-> <<>>, sourceSpectrums |-> <<>>, max_wl |-> R(-1)]

\* InterpolatedPowerSpectrum.__init__: the wavelengths of its table
NewTable ==
    [kind |-> "table", power |-> None, power_factor |-> One,
     native_wl |-> <<1, 2>>]

\* LineSpectrum.add_line
add_line(src, wavelength, f_rel) ==
    IF RLess(src.frel_max, f_rel)
    THEN [src EXCEPT !.lines = Append(@, <<Micro(wavelength), f_rel, 1>>),
                     !.frel_max = f_rel,
                     !.lambda_max = Micro(wavelength)]
    ELSE [src EXCEPT !.lines = Append(@, <<Micro(wavelength), f_rel, 1>>)]

\* OverlappedSpectrum.push_spectrum
push_spectrum(src, spectrum) ==
    [src EXCEPT !.max_wl = R(-1), !.sourceSpectrums = Append(@, spectrum)]

\* get_max_wl of the inner source: LineSpectrum, OverlappedSpectrum
InnerGetMaxWl(src) ==
    IF src.kind = "line" THEN src.lambda_max ELSE R(-1)

\* AttenuatedSpectrum.get_max_wl: the value returned, how it ended and the
\* cache it leaves.  With native wavelengths it evaluates self.I, which asks
\* the inner source for get_I_matrix; a PowerSpectrum has none.
AttenuatedGetMaxWl(w, src) ==
    IF RLess(w.max_wl, Zero)
    THEN IF src.native_wl # <<>>
         THEN [v |-> None, err |-> "AttributeError", max_wl |-> w.max_wl]
         ELSE [v |-> InnerGetMaxWl(src), err |-> "none",
               max_wl |-> InnerGetMaxWl(src)]
    ELSE [v |-> w.max_wl, err |-> "none", max_wl |-> w.max_wl]

get_max_wl ==
    LET r == AttenuatedGetMaxWl(wrapper, source)
    IN  /\ wrapper' = [wrapper EXCEPT !.max_wl = r.max_wl]
        /\ last' = Did("get_max_wl", 0, r.v, r.err)
        /\ UNCHANGED <<stage, filters, source, lamp>>
        /\ UnchangedTExp

InitPeak ==
    /\ TExpIdle
    /\ stage = [s \in StageIds |-> NewStage(s)]
    /\ filters = NewCompound
    /\ source \in {NewLine, NewOverlapped, NewTable}
    /\ wrapper = NewAttenuated
    /\ lamp = NewPower
    /\ det = <<>>
    /\ ui = <<>>
    /\ last = Did("init", 0, Zero, "none")

AddLine ==
    /\ source.kind = "line"
    /\ Len(source.lines) < MaxLines
    /\ \E w \in LineWl, f \in LineFrel :
           /\ source' = add_line(source, w, f)
           /\ last' = Did("add_line", w, f, "none")
    /\ UNCHANGED <<stage, filters, wrapper, lamp>>
    /\ UnchangedTExp

PushSpectrum ==
    /\ source.kind = "overlapped"
    /\ Len(source.sourceSpectrums) < MaxLines
    /\ source' = push_spectrum(source, "lamp")
    /\ last' = Did("push_spectrum", 0, Zero, "none")
    /\ UNCHANGED <<stage, filters, wrapper, lamp>>
    /\ UnchangedTExp

\* building and changing the attenuated source, asking for its peak
NextPeak ==
    \/ PushFilter
    \/ AttenuatedSpectrum_set_attenuation(Half)
    \/ \E s \in StageIds : set_multiplicity(s, R(2))
    \/ \E s \in StageIds : set_temperature(s, 300)
    \/ prune({"NO LABEL"})
    \/ AddLine
    \/ PushSpectrum
    \/ get_max_wl

SpecPeak == InitPeak /\ [][NextPeak]_vars

\* C30: get_max_wl returns what a computation without the cache would return
\* for the inner source and the filters as they are now, whatever was pushed,
\* set, added or pruned before.
C30_PeakIsFresh ==
    (last.op = "get_max_wl" /\ last.err = "none") =>
        last.arg = AttenuatedGetMaxWl([wrapper EXCEPT !.max_wl = R(-1)], source).v

====
